---- MODULE Spec2Model ----
(***************************************************************************)
(* The task-side execution agent of cirrus-ci-agent: Executor.RunBuild,    *)
(* Executor.performStep, BoundedCommands and the Vault unboxing prelude    *)
(* (src/internal/executor/vaultunboxer/vaultunboxer.go), with the panic    *)
(* recovery of main (src/unnamed/part_000).                                *)
(***************************************************************************)
EXTENDS Integers, Sequences, FiniteSets, TLC

(***************************************************************************)
(* Bounds of the model.                                                    *)
(***************************************************************************)
\* longest command list of an InitialCommands response
MaxCmds == 2
\* failed InitialCommands attempts that are followed one by one
MaxRetries == 2
\* longest command list handed to BoundedCommands on its own
MaxBoundedLen == 3
\* Log operations a terminal wait receives at most before the Exit operation
MaxTerminalLogs == 1

(***************************************************************************)
(* Data: commands, results, environment values.                            *)
(***************************************************************************)
CommandNames == <<"a", "b", "c", "d", "e", "f">>

Behaviours == {"ON_SUCCESS", "ON_FAILURE", "ALWAYS"}

\* the instruction variants of the switch in performStep that wait for
\* their handler and end with its success flag
ForegroundInstructions ==
    {"Clone", "File", "Script", "Cache", "UploadCache", "Artifacts"}

\* the variants the responses of the model are drawn from
InstructionsDrawn == {"Exit", "Script", "BackgroundScript"}

Command(n, b, i) == [name |-> n, behaviour |-> b, instruction |-> i]

CommandResult(n, s) == [name |-> n, status |-> s]

\* every command list of length n named a, b, c ... in order
CommandLists(n) ==
    { [i \in 1..n |-> Command(CommandNames[i], f[i][1], f[i][2])] :
        f \in [1..n -> Behaviours \X InstructionsDrawn] }

NamesOf(commands) == { commands[i].name : i \in DOMAIN commands }

EmptyEnv == [k \in {} |-> ""]

\* environment.Merge: the given items override
Merge(e, items) ==
    [k \in (DOMAIN e) \cup (DOMAIN items) |->
        IF k \in DOMAIN items THEN items[k] ELSE e[k]]

\* environment.Set
EnvSet(e, key, value) ==
    [k \in (DOMAIN e) \cup {key} |-> IF k = key THEN value ELSE e[k]]

\* the values a response may give a variable
BoxedValues == {"VAULT[p1 f]", "VAULT[p2 f]"}
MalformedValues == {"VAULT[p1"}
PlainValues == {"plain"}

\* vaultunboxer.NewBoxedValue: the outcome of parsing a value
NewBoxedValue(value) ==
    IF value \in BoxedValues THEN "boxed"
    ELSE IF value \in MalformedValues THEN "parseError"
    ELSE "notBoxed"

\* what the credential store holds at the path of a boxed value
VaultSecret(value) ==
    CASE value = "VAULT[p1 f]" -> "secret1"
      [] value = "VAULT[p2 f]" -> "secret2"
      [] OTHER -> "none"

(***************************************************************************)
(* getScriptEnvironment: the response's variables and the synthesised      *)
(* ones. The host has no OS variable; the directory chosen for             *)
(* CIRRUS_WORKING_DIR is one value, "workdir".                             *)
(***************************************************************************)
getScriptEnvironment(responseEnvironment) ==
    LET withOS == IF "OS" \in DOMAIN responseEnvironment
                  THEN responseEnvironment
                  ELSE EnvSet(responseEnvironment, "OS", "goos")
        withCirrusOS == EnvSet(withOS, "CIRRUS_OS", "goos")
        withArch == EnvSet(withCirrusOS, "CIRRUS_ARCH", "goarch")
    IN  IF "CIRRUS_WORKING_DIR" \in DOMAIN withArch
        THEN withArch
        ELSE EnvSet(withArch, "CIRRUS_WORKING_DIR", "workdir")

(***************************************************************************)
(* vaultunboxer.NewFromEnvironment: clientOk, addressOk and loginOk are    *)
(* the outcomes of vault.NewClient, SetAddress and Auth().Login.           *)
(***************************************************************************)
\* NewFromEnvironment that logs in whether or not CIRRUS_OIDC_TOKEN is set
NewFromEnvironmentAlwaysLogin(e, clientOk, addressOk, loginOk) ==
    IF ~clientOk THEN [ok |-> FALSE, login |-> FALSE]
    ELSE IF "CIRRUS_VAULT_URL" \notin DOMAIN e THEN [ok |-> FALSE, login |-> FALSE]
    ELSE IF ~addressOk THEN [ok |-> FALSE, login |-> FALSE]
    ELSE [ok |-> loginOk, login |-> TRUE]

NewFromEnvironment(e, clientOk, addressOk, loginOk) ==
    IF ~clientOk THEN [ok |-> FALSE, login |-> FALSE]
    ELSE IF "CIRRUS_VAULT_URL" \notin DOMAIN e THEN [ok |-> FALSE, login |-> FALSE]
    ELSE IF ~addressOk THEN [ok |-> FALSE, login |-> FALSE]
    ELSE IF "CIRRUS_OIDC_TOKEN" \in DOMAIN e
         THEN [ok |-> loginOk, login |-> TRUE]
         ELSE [ok |-> TRUE, login |-> FALSE]

(***************************************************************************)
(* BoundedCommands: one scan, every match overwrites its bound; the slice  *)
(* expression commands[left:right] panics when left > right.               *)
(***************************************************************************)
RECURSIVE BoundsScan(_, _, _, _, _, _)
BoundsScan(commands, fromName, toName, i, left, right) ==
    IF i > Len(commands) THEN <<left, right>>
    ELSE LET l == IF fromName # "" /\ commands[i].name = fromName
                  THEN i - 1 ELSE left
             r == IF toName # "" /\ commands[i].name = toName
                  THEN i - 1 ELSE right
         IN  BoundsScan(commands, fromName, toName, i + 1, l, r)

\* BoundedCommands with the upper bound forgotten
BoundedCommandsNoUpperBound(commands, fromName, toName) ==
    LET lr == BoundsScan(commands, fromName, "", 1, 0, Len(commands))
    IN  [panic |-> FALSE, left |-> lr[1], right |-> lr[2],
         commands |-> SubSeq(commands, lr[1] + 1, lr[2])]

BoundedCommands(commands, fromName, toName) ==
    LET lr == BoundsScan(commands, fromName, toName, 1, 0, Len(commands))
    IN  IF lr[1] > lr[2]
        THEN [panic |-> TRUE, left |-> lr[1], right |-> lr[2], commands |-> <<>>]
        ELSE [panic |-> FALSE, left |-> lr[1], right |-> lr[2],
              commands |-> SubSeq(commands, lr[1] + 1, lr[2])]

(***************************************************************************)
(* The execution-behaviour test of the loop in RunBuild.                   *)
(***************************************************************************)
\* shouldRun with the flag forgotten for ON_FAILURE
shouldRunOnFailureAlways(behaviour, failed) ==
    \/ (behaviour = "ON_SUCCESS" /\ ~failed)
    \/ behaviour = "ON_FAILURE"
    \/ behaviour = "ALWAYS"

shouldRun(behaviour, failed) ==
    \/ (behaviour = "ON_SUCCESS" /\ ~failed)
    \/ (behaviour = "ON_FAILURE" /\ failed)
    \/ behaviour = "ALWAYS"

\* the status queued after a step
currentCommandStatus(success) == IF success THEN "COMPLETED" ELSE "FAILED"

\* the token check comparing the response's token with itself
TokenMatchesItself(responseToken, launchToken) == responseToken = responseToken

\* the token check of RunBuild
TokenMatches(responseToken, launchToken) == responseToken = launchToken

(***************************************************************************)
(* The update batcher: queue, flush, history.                              *)
(***************************************************************************)
\* the place of the most recent buffered result of that name, 0 if none
LastBuffered(buffer, name) ==
    LET S == { i \in DOMAIN buffer : buffer[i].name = name }
    IN  IF S = {} THEN 0 ELSE CHOOSE i \in S : \A j \in S : j <= i

\* queue: a result of a name already buffered replaces the buffered one
QueueUpdate(buffer, result) ==
    LET i == LastBuffered(buffer, result.name)
    IN  IF i = 0 THEN Append(buffer, result)
        ELSE [buffer EXCEPT ![i] = result]

(***************************************************************************)
(* The inputs of a run: the launch flags and the InitialCommands response. *)
(***************************************************************************)
LaunchToken == "token"

ResponseTokens == {"token", "impostor"}

AllNames == { CommandNames[i] : i \in DOMAIN CommandNames }

\* --command-from and --command-to: no bound, a lower one, an upper one, an
\* empty range, an upper bound before the lower one
LaunchBounds == {<<"", "">>, <<"b", "">>, <<"", "b">>, <<"b", "b">>, <<"b", "a">>}

\* responses that vary the command list, with no variables of their own
CommandResponses ==
    { [serverToken |-> t, commands |-> c, failedAtLeastOnce |-> f,
       environment |-> EmptyEnv, secretsToMask |-> {"mask1"}] :
        t \in ResponseTokens,
        c \in UNION { CommandLists(n) : n \in 0..MaxCmds },
        f \in BOOLEAN }

\* the variables a response may carry
ResponseEnvironments ==
    UNION { { Merge(kv, flags) :
                kv \in [D -> BoxedValues \cup MalformedValues \cup PlainValues],
                flags \in { [k \in F |-> "set"] :
                            F \in SUBSET {"CIRRUS_VAULT_URL", "CIRRUS_OIDC_TOKEN"} } } :
            D \in SUBSET {"KEY1", "KEY2"} }

\* responses that vary the variables, with one command
EnvironmentResponses ==
    { [serverToken |-> LaunchToken,
       commands |-> <<Command("a", "ALWAYS", "Script")>>,
       failedAtLeastOnce |-> FALSE,
       environment |-> e, secretsToMask |-> m] :
        e \in ResponseEnvironments, m \in {{}, {"mask1"}} }

\* responses that follow failed attempts of the fetch, with one command
RetriedResponses ==
    { [serverToken |-> t,
       commands |-> <<Command("a", "ALWAYS", "Script")>>,
       failedAtLeastOnce |-> FALSE,
       environment |-> EmptyEnv, secretsToMask |-> {"mask1"}] :
        t \in ResponseTokens }

\* command lists of Script and WaitForTerminal steps, one of them at least a
\* WaitForTerminal
TerminalLists ==
    { c \in UNION { { [i \in 1..n |-> Command(CommandNames[i], "ALWAYS", f[i])] :
                        f \in [1..n -> {"Script", "WaitForTerminal"}] } :
                    n \in 1..MaxCmds } :
        \E i \in DOMAIN c : c[i].instruction = "WaitForTerminal" }

\* responses with a terminal wait among the commands
TerminalResponses ==
    { [serverToken |-> LaunchToken, commands |-> c, failedAtLeastOnce |-> FALSE,
       environment |-> EmptyEnv, secretsToMask |-> {"mask1"}] :
        c \in TerminalLists }

\* the responses drawn for a launch with the given bounds, after the given
\* number of failed attempts
Responses(fromName, toName, retries) ==
    IF retries # 0 THEN RetriedResponses
    ELSE CommandResponses \cup TerminalResponses \cup
         (IF fromName = "" /\ toName = "" THEN EnvironmentResponses ELSE {})

NoResponse ==
    [serverToken |-> "", commands |-> <<>>, failedAtLeastOnce |-> FALSE,
     environment |-> EmptyEnv, secretsToMask |-> {}]

NoStepResult == [success |-> FALSE, exit |-> FALSE]

NoBounded == [panic |-> FALSE, left |-> 0, right |-> 0, commands |-> <<>>]

\* the select on the metrics channel has not been met
NoMetrics == [arrived |-> FALSE, errors |-> 0, timedOut |-> FALSE]

NoBoundedInput == [commands |-> <<>>, fromName |-> "", toName |-> ""]

(***************************************************************************)
(* State.                                                                  *)
(***************************************************************************)
VARIABLES
    pc,                 \* where RunBuild (and main around it) stands
    ctxCancelled,       \* a retry loop saw the parent context cancelled
    commandFrom, commandTo, serverToken,        \* Executor fields
    numRetries,         \* failed InitialCommands attempts
    retryFlags,         \* the Retry flag of every InitialCommands request
    response,           \* the CommandsResponse
    env,                \* executor.env: the variables
    sensitive,          \* executor.env: the sensitive values
    toVisit,            \* keys the unboxing loop has not visited
    vaultUnboxer,       \* "nil" or "client"
    vaultClients,       \* calls of NewFromEnvironment
    loginAttempts,      \* calls of Auth().Login
    preludeFailure,     \* why the prelude gave up, "none" otherwise
    failedAtLeastOnce,  \* the running flag of the loop
    bounded,            \* the commands the loop ranges over
    idx,                \* the place of the loop in bounded
    stepResult,         \* what performStep returned
    terminalWrapper,    \* executor.terminalWrapper is set
    updates,            \* update batcher: the buffer
    history,            \* update batcher: everything ever queued
    sent,               \* results transmitted to the controller, in order
    backgroundCommands, \* executor.backgroundCommands: names, in order
    procs,              \* name -> "none", "running", "exited", "killed"
    killCalled,         \* names whose Process.Kill was called
    logUploaders,       \* names whose log uploader was created
    finalized,          \* name -> calls of Finalize on its log uploader
    drainIdx,           \* the place of the clean-up loop
    resourceUtilization,\* "nil" or "measured"
    dispatched,         \* names handed to performStep, in order
    outcomes,           \* <<name, outcome>> of every return of performStep
    agentErrors,        \* ReportAgentError calls
    agentWarnings,      \* ReportAgentWarning calls
    finishedReports,    \* the arguments of every ReportAgentFinished call
    reportResults,      \* "ok" or "error" of every ReportAgentFinished call
    bcIn, bcOut         \* BoundedCommands on its own: arguments, result

VARIABLES
    apiEndpoint,        \* transportSettings: the endpoint, a string of symbols
    transport,          \* transportSettings: what it returned
    scriptWait,         \* performStep: what the wait for the script returned
    cirrusEnvFile,      \* performStep: what the step wrote to its CIRRUS_ENV file
    consumed,           \* performStep: the variables cirrusEnv.Consume returned
    scriptOut,          \* performStep: the StepResult of a Script step
    flags,              \* main: --help and --stop-hook
    conn,               \* main: "nil" or "established"
    dialFailures,       \* main: failed dialWithTimeout calls
    stopHookCalls,      \* main: "ok" or "error" of every ReportStopHook call
    logFileRemoved,     \* main: os.Remove was called on the log file
    heartbeats,         \* main: "none" or "running", the heartbeat goroutine
    receiver,           \* main: "none", "waiting" or "done", the signal goroutine
    signalsDelivered,   \* main: signals delivered to the process
    signalReports,      \* main: ReportAgentSignal calls
    executorRuns        \* main: calls of RunBuild

VARIABLES
    metricsResult,      \* RunBuild: what the select on the metrics channel met
    stepReturn,         \* performStep: the return the step in hand took
    stepDeadline,       \* RunBuild: "live" or "expired", the context of the steps
    terminalOps         \* performStep: the operations a terminal wait received

VARIABLES
    cloneAttempts,      \* CloneRepository: the fetches and clones made, in order
    cloneErr,           \* CloneRepository: err, a message, <<>> for nil
    cloneResult         \* CloneRepository: "none", "true" or "false"

launchVars == <<commandFrom, commandTo, serverToken>>
fetchVars == <<numRetries, retryFlags, response>>
envVars == <<env, sensitive, toVisit, vaultUnboxer, vaultClients, loginAttempts,
             preludeFailure>>
loopVars == <<failedAtLeastOnce, bounded, idx, stepResult, terminalWrapper>>
ubVars == <<updates, history, sent>>
bgVars == <<backgroundCommands, procs, killCalled, logUploaders, finalized, drainIdx>>
logVars == <<dispatched, outcomes>>
reportVars == <<agentErrors, agentWarnings, finishedReports, reportResults,
               resourceUtilization>>
bcVars == <<bcIn, bcOut>>
transportVars == <<apiEndpoint, transport>>
scriptVars == <<scriptWait, cirrusEnvFile, consumed, scriptOut>>
mainVars == <<flags, conn, dialFailures, stopHookCalls, logFileRemoved,
              heartbeats, receiver, signalsDelivered, signalReports,
              executorRuns>>
\* the variables of the parts that are also followed on their own
cloneVars == <<cloneAttempts, cloneErr, cloneResult>>
partVars == <<bcVars, transportVars, scriptVars, mainVars, cloneVars>>
stepVars == <<metricsResult, stepReturn, stepDeadline, terminalOps>>
unitVars == <<partVars, stepVars>>

vars == <<pc, ctxCancelled, launchVars, fetchVars, envVars, loopVars, ubVars,
          bgVars, logVars, reportVars, unitVars>>

\* NewExecutor, and everything RunBuild has yet to touch
Constructed ==
    /\ ctxCancelled = FALSE
    /\ serverToken = LaunchToken
    /\ numRetries = 0
    /\ retryFlags = <<>>
    /\ response = NoResponse
    /\ env = EmptyEnv
    /\ sensitive = {}
    /\ toVisit = {}
    /\ vaultUnboxer = "nil"
    /\ vaultClients = 0
    /\ loginAttempts = 0
    /\ preludeFailure = "none"
    /\ failedAtLeastOnce = FALSE
    /\ bounded = <<>>
    /\ idx = 1
    /\ stepResult = NoStepResult
    /\ terminalWrapper = FALSE
    /\ updates = <<>>
    /\ history = <<>>
    /\ sent = <<>>
    /\ backgroundCommands = <<>>
    /\ procs = [n \in AllNames |-> "none"]
    /\ killCalled = {}
    /\ logUploaders = {}
    /\ finalized = [n \in AllNames |-> 0]
    /\ drainIdx = 1
    /\ resourceUtilization = "nil"
    /\ dispatched = <<>>
    /\ outcomes = <<>>
    /\ agentErrors = 0
    /\ agentWarnings = 0
    /\ finishedReports = <<>>
    /\ reportResults = <<>>
    /\ metricsResult = NoMetrics
    /\ stepReturn = "none"
    /\ stepDeadline = "live"
    /\ terminalOps = <<>>
    /\ cloneAttempts = <<>>
    /\ cloneErr = <<>>
    /\ cloneResult = "none"

\* the parts followed on their own, untouched
NoTransport == [target |-> <<>>, insecure |-> FALSE]

NoScriptWait == [err |-> "nil", exit |-> "zero", waitStatus |-> FALSE]

NoScriptOut == [success |-> FALSE, signaledToExit |-> FALSE]

NoFlags == [help |-> FALSE, stopHook |-> FALSE]

TransportIdle ==
    /\ apiEndpoint = <<>>
    /\ transport = NoTransport

ScriptIdle ==
    /\ scriptWait = NoScriptWait
    /\ cirrusEnvFile = EmptyEnv
    /\ consumed = EmptyEnv
    /\ scriptOut = NoScriptOut

MainIdle ==
    /\ flags = NoFlags
    /\ conn = "nil"
    /\ dialFailures = 0
    /\ stopHookCalls = <<>>
    /\ logFileRemoved = FALSE
    /\ heartbeats = "none"
    /\ receiver = "none"
    /\ signalsDelivered = 0
    /\ signalReports = 0
    /\ executorRuns = 0

BoundedIdle ==
    /\ bcIn = NoBoundedInput
    /\ bcOut = NoBounded

Init ==
    /\ pc = "fetch"
    /\ \E b \in LaunchBounds :
        /\ commandFrom = b[1]
        /\ commandTo = b[2]
    /\ Constructed
    /\ BoundedIdle
    /\ TransportIdle
    /\ ScriptIdle
    /\ MainIdle

(***************************************************************************)
(* RunBuild: the initial fetch, retry.Do around InitialCommands. After a   *)
(* failed attempt OnRetry counts it and retry.Do waits for the 5-second    *)
(* delay or for the cancellation of the parent context, whichever is       *)
(* first.                                                                  *)
(***************************************************************************)
\* FetchError with the request of every attempt carrying retry=false
FetchErrorRetryUnset ==
    /\ pc = "fetch"
    /\ numRetries < MaxRetries
    /\ retryFlags' = Append(retryFlags, FALSE)
    /\ numRetries' = numRetries + 1
    /\ UNCHANGED <<pc, ctxCancelled, launchVars, response, envVars, loopVars,
                   ubVars, bgVars, logVars, reportVars, unitVars>>

\* an attempt fails and the delay passes
FetchError ==
    /\ pc = "fetch"
    /\ numRetries < MaxRetries
    /\ retryFlags' = Append(retryFlags, numRetries # 0)
    /\ numRetries' = numRetries + 1
    /\ UNCHANGED <<pc, ctxCancelled, launchVars, response, envVars, loopVars,
                   ubVars, bgVars, logVars, reportVars, unitVars>>

\* an attempt fails and the context is cancelled first: RunBuild returns
FetchCancelled ==
    /\ pc = "fetch"
    /\ retryFlags' = Append(retryFlags, numRetries # 0)
    /\ numRetries' = numRetries + 1
    /\ ctxCancelled' = TRUE
    /\ pc' = "returned"
    /\ UNCHANGED <<launchVars, response, envVars, loopVars, ubVars, bgVars,
                   logVars, reportVars, unitVars>>

FetchOk ==
    /\ pc = "fetch"
    /\ \E r \in Responses(commandFrom, commandTo, numRetries) : response' = r
    /\ retryFlags' = Append(retryFlags, numRetries # 0)
    /\ pc' = "token"
    /\ UNCHANGED <<ctxCancelled, launchVars, numRetries, envVars, loopVars, ubVars,
                   bgVars, logVars, reportVars, unitVars>>

(***************************************************************************)
(* RunBuild: the token check. log.Panic panics.                            *)
(***************************************************************************)
TokenMismatch ==
    /\ pc = "token"
    /\ ~TokenMatches(response.serverToken, serverToken)
    /\ pc' = "panicked"
    /\ UNCHANGED <<ctxCancelled, launchVars, fetchVars, envVars, loopVars, ubVars,
                   bgVars, logVars, reportVars, unitVars>>

\* the token is right: merge the script environment, start the unboxing loop
TokenOk ==
    /\ pc = "token"
    /\ TokenMatches(response.serverToken, serverToken)
    /\ env' = Merge(env, getScriptEnvironment(response.environment))
    /\ toVisit' = DOMAIN env'
    /\ pc' = "unbox"
    /\ UNCHANGED <<ctxCancelled, launchVars, fetchVars, sensitive, vaultUnboxer,
                   vaultClients, loginAttempts, preludeFailure, loopVars, ubVars,
                   bgVars, logVars, reportVars, unitVars>>

\* main's deferred recover: ReportAgentError with the panic value
PanicRecover ==
    /\ pc = "panicked"
    /\ agentErrors' = agentErrors + 1
    /\ pc' = "exited"
    /\ UNCHANGED <<ctxCancelled, launchVars, fetchVars, envVars, loopVars, ubVars,
                   bgVars, logVars, agentWarnings, finishedReports, reportResults,
                   resourceUtilization, unitVars>>

(***************************************************************************)
(* RunBuild: unboxing of VAULT[...] variables, one key of env.Items() per  *)
(* step, in any order.                                                     *)
(***************************************************************************)
\* the unboxer after "if vaultUnboxer == nil { NewFromEnvironment }"
ClientAfter(r) == IF vaultUnboxer = "nil" /\ r.ok THEN "client" ELSE vaultUnboxer
ClientsAfter == IF vaultUnboxer = "nil" THEN vaultClients + 1 ELSE vaultClients
LoginsAfter(r) ==
    IF vaultUnboxer = "nil" /\ r.login THEN loginAttempts + 1 ELSE loginAttempts

\* the keys the environment may hold, in one fixed order
EnvKeys == <<"CIRRUS_ARCH", "CIRRUS_HTTP_CACHE_HOST", "CIRRUS_OIDC_TOKEN",
             "CIRRUS_OS", "CIRRUS_VAULT_URL", "CIRRUS_WORKING_DIR", "KEY1",
             "KEY2", "OS">>

KeyPlace(k) == CHOOSE i \in DOMAIN EnvKeys : EnvKeys[i] = k

\* ErrNotABoxedValue: continue. The order of env.Items() is any order; the
\* visits of values that are not boxed change nothing and commute with every
\* other visit, so among themselves they are taken in the order of EnvKeys.
UnboxNotBoxed ==
    /\ pc = "unbox"
    /\ \E k \in toVisit :
        /\ NewBoxedValue(env[k]) = "notBoxed"
        /\ \A j \in toVisit :
            NewBoxedValue(env[j]) = "notBoxed" => KeyPlace(k) <= KeyPlace(j)
        /\ toVisit' = toVisit \ {k}
    /\ UNCHANGED <<pc, ctxCancelled, launchVars, fetchVars, env, sensitive,
                   vaultUnboxer, vaultClients, loginAttempts, preludeFailure,
                   loopVars, ubVars, bgVars, logVars, reportVars, unitVars>>

\* the parse error taken for ErrNotABoxedValue: continue
UnboxParseErrorContinues ==
    /\ pc = "unbox"
    /\ \E k \in toVisit :
        /\ NewBoxedValue(env[k]) = "parseError"
        /\ toVisit' = toVisit \ {k}
    /\ preludeFailure' = "parse"
    /\ UNCHANGED <<pc, ctxCancelled, launchVars, fetchVars, env, sensitive,
                   vaultUnboxer, vaultClients, loginAttempts, loopVars, ubVars,
                   bgVars, logVars, reportVars, unitVars>>

\* any other parse error: reportError and return
UnboxParseError ==
    /\ pc = "unbox"
    /\ \E k \in toVisit : NewBoxedValue(env[k]) = "parseError"
    /\ agentErrors' = agentErrors + 1
    /\ preludeFailure' = "parse"
    /\ pc' = "returned"
    /\ UNCHANGED <<ctxCancelled, launchVars, fetchVars, env, sensitive, toVisit,
                   vaultUnboxer, vaultClients, loginAttempts, loopVars, ubVars,
                   bgVars, logVars, agentWarnings, finishedReports, reportResults,
                   resourceUtilization, unitVars>>

\* a boxed value, no client yet, and NewFromEnvironment fails
UnboxVaultError ==
    /\ pc = "unbox"
    /\ vaultUnboxer = "nil"
    /\ \E k \in toVisit : NewBoxedValue(env[k]) = "boxed"
    /\ \E clientOk \in BOOLEAN, addressOk \in BOOLEAN, loginOk \in BOOLEAN :
        LET r == NewFromEnvironment(env, clientOk, addressOk, loginOk)
        IN  /\ ~r.ok
            /\ vaultClients' = ClientsAfter
            /\ loginAttempts' = LoginsAfter(r)
    /\ agentErrors' = agentErrors + 1
    /\ preludeFailure' = "vault"
    /\ pc' = "returned"
    /\ UNCHANGED <<ctxCancelled, launchVars, fetchVars, env, sensitive, toVisit,
                   vaultUnboxer, loopVars, ubVars, bgVars, logVars, agentWarnings,
                   finishedReports, reportResults, resourceUtilization, unitVars>>

\* a boxed value, a client, and Unbox fails
UnboxReadError ==
    /\ pc = "unbox"
    /\ \E k \in toVisit : NewBoxedValue(env[k]) = "boxed"
    /\ \E clientOk \in BOOLEAN, addressOk \in BOOLEAN, loginOk \in BOOLEAN :
        LET r == NewFromEnvironment(env, clientOk, addressOk, loginOk)
        IN  /\ vaultUnboxer = "nil" => r.ok
            /\ vaultUnboxer' = ClientAfter(r)
            /\ vaultClients' = ClientsAfter
            /\ loginAttempts' = LoginsAfter(r)
    /\ agentErrors' = agentErrors + 1
    /\ preludeFailure' = "unbox"
    /\ pc' = "returned"
    /\ UNCHANGED <<ctxCancelled, launchVars, fetchVars, env, sensitive, toVisit,
                   loopVars, ubVars, bgVars, logVars, agentWarnings,
                   finishedReports, reportResults, resourceUtilization, unitVars>>

\* UnboxOk without AddSensitiveValues
UnboxOkNotSensitive ==
    /\ pc = "unbox"
    /\ \E k \in toVisit :
        /\ NewBoxedValue(env[k]) = "boxed"
        /\ env' = EnvSet(env, k, VaultSecret(env[k]))
        /\ toVisit' = toVisit \ {k}
    /\ \E clientOk \in BOOLEAN, addressOk \in BOOLEAN, loginOk \in BOOLEAN :
        LET r == NewFromEnvironment(env, clientOk, addressOk, loginOk)
        IN  /\ vaultUnboxer = "nil" => r.ok
            /\ vaultUnboxer' = ClientAfter(r)
            /\ vaultClients' = ClientsAfter
            /\ loginAttempts' = LoginsAfter(r)
    /\ UNCHANGED <<pc, ctxCancelled, launchVars, fetchVars, sensitive,
                   preludeFailure, loopVars, ubVars, bgVars, logVars, reportVars,
                   unitVars>>

\* a boxed value, a client, and Unbox succeeds: env.Set, AddSensitiveValues
UnboxOk ==
    /\ pc = "unbox"
    /\ \E k \in toVisit :
        /\ NewBoxedValue(env[k]) = "boxed"
        /\ env' = EnvSet(env, k, VaultSecret(env[k]))
        /\ sensitive' = sensitive \cup {VaultSecret(env[k])}
        /\ toVisit' = toVisit \ {k}
    /\ \E clientOk \in BOOLEAN, addressOk \in BOOLEAN, loginOk \in BOOLEAN :
        LET r == NewFromEnvironment(env, clientOk, addressOk, loginOk)
        IN  /\ vaultUnboxer = "nil" => r.ok
            /\ vaultUnboxer' = ClientAfter(r)
            /\ vaultClients' = ClientsAfter
            /\ loginAttempts' = LoginsAfter(r)
    /\ UNCHANGED <<pc, ctxCancelled, launchVars, fetchVars, preludeFailure,
                   loopVars, ubVars, bgVars, logVars, reportVars, unitVars>>

(***************************************************************************)
(* RunBuild: from the working directory to the head of the loop. The host  *)
(* sets no CIRRUS_HTTP_CACHE_HOST.                                         *)
(***************************************************************************)
WithCacheHost(e) ==
    IF "CIRRUS_HTTP_CACHE_HOST" \in DOMAIN e THEN e
    ELSE EnvSet(e, "CIRRUS_HTTP_CACHE_HOST", "cachehost")

\* hasWaitForTerminalInstruction that looks at the first command only
hasWaitForTerminalInstructionFirstOnly(commands) ==
    commands # <<>> /\ commands[1].instruction = "WaitForTerminal"

hasWaitForTerminalInstruction(commands) ==
    \E i \in DOMAIN commands : commands[i].instruction = "WaitForTerminal"

\* cache host and AddSensitiveValues(response.SecretsToMask...)
SetupEnvironment ==
    /\ env' = WithCacheHost(env)
    /\ sensitive' = sensitive \cup response.secretsToMask

\* len(commands) == 0: return
SetupEmpty ==
    /\ pc = "unbox"
    /\ toVisit = {}
    /\ Len(response.commands) = 0
    /\ SetupEnvironment
    /\ pc' = "returned"
    /\ UNCHANGED <<ctxCancelled, launchVars, fetchVars, toVisit, vaultUnboxer,
                   vaultClients, loginAttempts, preludeFailure, loopVars, ubVars,
                   bgVars, logVars, reportVars, unitVars>>

\* the slice expression of BoundedCommands panics
SetupPanic ==
    /\ pc = "unbox"
    /\ toVisit = {}
    /\ Len(response.commands) # 0
    /\ BoundedCommands(response.commands, commandFrom, commandTo).panic
    /\ SetupEnvironment
    /\ terminalWrapper' = hasWaitForTerminalInstruction(response.commands)
    /\ failedAtLeastOnce' = response.failedAtLeastOnce
    /\ pc' = "panicked"
    /\ UNCHANGED <<ctxCancelled, launchVars, fetchVars, toVisit, vaultUnboxer,
                   vaultClients, loginAttempts, preludeFailure, bounded, idx,
                   stepResult, ubVars, bgVars, logVars, reportVars, unitVars>>

\* the loop starts over the bounded commands
SetupLoop ==
    /\ pc = "unbox"
    /\ toVisit = {}
    /\ Len(response.commands) # 0
    /\ ~BoundedCommands(response.commands, commandFrom, commandTo).panic
    /\ SetupEnvironment
    /\ terminalWrapper' = hasWaitForTerminalInstruction(response.commands)
    /\ failedAtLeastOnce' = response.failedAtLeastOnce
    /\ bounded' = BoundedCommands(response.commands, commandFrom, commandTo).commands
    /\ idx' = 1
    /\ pc' = "loop"
    /\ UNCHANGED <<ctxCancelled, launchVars, fetchVars, toVisit, vaultUnboxer,
                   vaultClients, loginAttempts, preludeFailure, stepResult,
                   ubVars, bgVars, logVars, reportVars, unitVars>>

(***************************************************************************)
(* RunBuild: one iteration of the loop.                                    *)
(***************************************************************************)
\* LoopSkip that queues nothing
LoopSkipNoResult ==
    /\ pc = "loop"
    /\ idx <= Len(bounded)
    /\ ~shouldRun(bounded[idx].behaviour, failedAtLeastOnce)
    /\ idx' = idx + 1
    /\ UNCHANGED <<pc, ctxCancelled, launchVars, fetchVars, envVars,
                   failedAtLeastOnce, bounded, stepResult, terminalWrapper, ubVars,
                   bgVars, logVars, reportVars, unitVars>>

\* !shouldRun: queue SKIPPED, continue
LoopSkip ==
    /\ pc = "loop"
    /\ idx <= Len(bounded)
    /\ ~shouldRun(bounded[idx].behaviour, failedAtLeastOnce)
    /\ updates' = QueueUpdate(updates, CommandResult(bounded[idx].name, "SKIPPED"))
    /\ history' = Append(history, CommandResult(bounded[idx].name, "SKIPPED"))
    /\ idx' = idx + 1
    /\ UNCHANGED <<pc, ctxCancelled, launchVars, fetchVars, envVars,
                   failedAtLeastOnce, bounded, stepResult, terminalWrapper, sent,
                   bgVars, logVars, reportVars, unitVars>>

\* LoopDispatch without the flush
LoopDispatchNoFlush ==
    /\ pc = "loop"
    /\ idx <= Len(bounded)
    /\ shouldRun(bounded[idx].behaviour, failedAtLeastOnce)
    /\ updates' = QueueUpdate(updates, CommandResult(bounded[idx].name, "EXECUTING"))
    /\ history' = Append(history, CommandResult(bounded[idx].name, "EXECUTING"))
    /\ dispatched' = Append(dispatched, bounded[idx].name)
    /\ pc' = "step"
    /\ UNCHANGED <<ctxCancelled, launchVars, fetchVars, envVars, loopVars, sent,
                   bgVars, outcomes, reportVars, unitVars>>

\* shouldRun: queue EXECUTING, flush, call performStep
LoopDispatch ==
    /\ pc = "loop"
    /\ idx <= Len(bounded)
    /\ shouldRun(bounded[idx].behaviour, failedAtLeastOnce)
    /\ sent' = sent \o QueueUpdate(updates, CommandResult(bounded[idx].name, "EXECUTING"))
    /\ updates' = <<>>
    /\ history' = Append(history, CommandResult(bounded[idx].name, "EXECUTING"))
    /\ dispatched' = Append(dispatched, bounded[idx].name)
    /\ pc' = "step"
    /\ UNCHANGED <<ctxCancelled, launchVars, fetchVars, envVars, loopVars, bgVars,
                   outcomes, reportVars, unitVars>>

\* performStep returned the sentinel: return
LoopExit ==
    /\ pc = "stepReturned"
    /\ stepResult.exit
    /\ pc' = "returned"
    /\ stepReturn' = "none"
    /\ UNCHANGED <<ctxCancelled, launchVars, fetchVars, envVars, loopVars, ubVars,
                   bgVars, logVars, reportVars, partVars, metricsResult,
                   stepDeadline, terminalOps>>

\* performStep returned a result: update the flag, queue the terminal status
LoopStepDone ==
    /\ pc = "stepReturned"
    /\ ~stepResult.exit
    /\ failedAtLeastOnce' = (failedAtLeastOnce \/ ~stepResult.success)
    /\ updates' = QueueUpdate(updates,
            CommandResult(bounded[idx].name, currentCommandStatus(stepResult.success)))
    /\ history' = Append(history,
            CommandResult(bounded[idx].name, currentCommandStatus(stepResult.success)))
    /\ idx' = idx + 1
    /\ pc' = "loop"
    /\ stepReturn' = "none"
    /\ terminalOps' = <<>>
    /\ UNCHANGED <<ctxCancelled, launchVars, fetchVars, envVars, bounded,
                   stepResult, terminalWrapper, sent, bgVars, logVars,
                   reportVars, partVars, metricsResult,
                   stepDeadline>>

(***************************************************************************)
(* performStep, by outcome. The step is bounded[idx].                      *)
(***************************************************************************)
Finalize(name) == [finalized EXCEPT ![name] = @ + 1]

\* NewLogUploader fails: a warning, success=false
StepLogUploaderError ==
    /\ pc = "step"
    /\ terminalOps = <<>>
    /\ agentWarnings' = agentWarnings + 1
    /\ stepResult' = [success |-> FALSE, exit |-> FALSE]
    /\ outcomes' = Append(outcomes, <<bounded[idx].name, "failure">>)
    /\ pc' = "stepReturned"
    /\ stepReturn' = "logUploader"
    /\ UNCHANGED <<ctxCancelled, launchVars, fetchVars, envVars, failedAtLeastOnce,
                   bounded, idx, terminalWrapper, ubVars, bgVars, dispatched,
                   agentErrors, finishedReports, reportResults, resourceUtilization, partVars, metricsResult,
                   stepDeadline, terminalOps>>

\* cirrusenv.New fails: success=false; the deferred Finalize runs for every
\* variant but BackgroundScript
StepCirrusEnvError ==
    /\ pc = "step"
    /\ terminalOps = <<>>
    /\ logUploaders' = logUploaders \cup {bounded[idx].name}
    /\ finalized' = IF bounded[idx].instruction # "BackgroundScript"
                    THEN Finalize(bounded[idx].name) ELSE finalized
    /\ stepResult' = [success |-> FALSE, exit |-> FALSE]
    /\ outcomes' = Append(outcomes, <<bounded[idx].name, "failure">>)
    /\ pc' = "stepReturned"
    /\ stepReturn' = "cirrusEnv"
    /\ UNCHANGED <<ctxCancelled, launchVars, fetchVars, envVars, failedAtLeastOnce,
                   bounded, idx, terminalWrapper, ubVars, backgroundCommands, procs,
                   killCalled, drainIdx, dispatched, reportVars, partVars, metricsResult,
                   stepDeadline, terminalOps>>

\* ExitInstruction: return nil, ErrStepExit
StepExit ==
    /\ pc = "step"
    /\ bounded[idx].instruction = "Exit"
    /\ logUploaders' = logUploaders \cup {bounded[idx].name}
    /\ finalized' = Finalize(bounded[idx].name)
    /\ stepResult' = [success |-> FALSE, exit |-> TRUE]
    /\ outcomes' = Append(outcomes, <<bounded[idx].name, "exit">>)
    /\ pc' = "stepReturned"
    /\ stepReturn' = "exit"
    /\ UNCHANGED <<ctxCancelled, launchVars, fetchVars, envVars, failedAtLeastOnce,
                   bounded, idx, terminalWrapper, ubVars, backgroundCommands, procs,
                   killCalled, drainIdx, dispatched, reportVars, partVars, metricsResult,
                   stepDeadline, terminalOps>>

\* Clone, File, Script, Cache, UploadCache, Artifacts: the handler's flag
StepForeground ==
    /\ pc = "step"
    /\ bounded[idx].instruction \in ForegroundInstructions
    /\ logUploaders' = logUploaders \cup {bounded[idx].name}
    /\ finalized' = Finalize(bounded[idx].name)
    /\ \E success \in BOOLEAN :
        /\ stepResult' = [success |-> success, exit |-> FALSE]
        /\ outcomes' = Append(outcomes,
                <<bounded[idx].name, IF success THEN "success" ELSE "failure">>)
    /\ pc' = "stepReturned"
    /\ stepReturn' = "handler"
    /\ UNCHANGED <<ctxCancelled, launchVars, fetchVars, envVars, failedAtLeastOnce,
                   bounded, idx, terminalWrapper, ubVars, backgroundCommands, procs,
                   killCalled, drainIdx, dispatched, reportVars, partVars, metricsResult,
                   stepDeadline, terminalOps>>

\* WaitForTerminal, a Log operation arrives: it is written to the log
\* uploader and the wait goes on
StepTerminalLog ==
    /\ pc = "step"
    /\ bounded[idx].instruction = "WaitForTerminal"
    /\ terminalWrapper
    /\ Len(terminalOps) < MaxTerminalLogs
    /\ terminalOps' = Append(terminalOps, "log")
    /\ logUploaders' = logUploaders \cup {bounded[idx].name}
    /\ UNCHANGED <<pc, ctxCancelled, launchVars, fetchVars, envVars, loopVars,
                   ubVars, backgroundCommands, procs, killCalled, finalized,
                   drainIdx, logVars, reportVars, partVars, metricsResult,
                   stepReturn, stepDeadline>>

\* WaitForTerminal, an Exit operation arrives: its flag is the step's
StepTerminalExit ==
    /\ pc = "step"
    /\ bounded[idx].instruction = "WaitForTerminal"
    /\ terminalWrapper
    /\ logUploaders' = logUploaders \cup {bounded[idx].name}
    /\ finalized' = Finalize(bounded[idx].name)
    /\ \E success \in BOOLEAN :
        /\ terminalOps' = Append(terminalOps,
                IF success THEN "exitSuccess" ELSE "exitFailure")
        /\ stepResult' = [success |-> success, exit |-> FALSE]
        /\ outcomes' = Append(outcomes,
                <<bounded[idx].name, IF success THEN "success" ELSE "failure">>)
    /\ pc' = "stepReturned"
    /\ stepReturn' = "terminal"
    /\ UNCHANGED <<ctxCancelled, launchVars, fetchVars, envVars, failedAtLeastOnce,
                   bounded, idx, terminalWrapper, ubVars, backgroundCommands, procs,
                   killCalled, drainIdx, dispatched, reportVars, partVars,
                   metricsResult, stepDeadline>>

\* BackgroundScript, launched: append to the registry, success=true
StepBackgroundStarted ==
    /\ pc = "step"
    /\ bounded[idx].instruction = "BackgroundScript"
    /\ logUploaders' = logUploaders \cup {bounded[idx].name}
    /\ backgroundCommands' = Append(backgroundCommands, bounded[idx].name)
    /\ procs' = [procs EXCEPT ![bounded[idx].name] = "running"]
    /\ stepResult' = [success |-> TRUE, exit |-> FALSE]
    /\ outcomes' = Append(outcomes, <<bounded[idx].name, "success">>)
    /\ pc' = "stepReturned"
    /\ stepReturn' = "launched"
    /\ UNCHANGED <<ctxCancelled, launchVars, fetchVars, envVars, failedAtLeastOnce,
                   bounded, idx, terminalWrapper, ubVars, killCalled, finalized,
                   drainIdx, dispatched, reportVars, partVars, metricsResult,
                   stepDeadline, terminalOps>>

\* StepBackgroundError that enters the step in the registry all the same
StepBackgroundErrorRegisters ==
    /\ pc = "step"
    /\ bounded[idx].instruction = "BackgroundScript"
    /\ logUploaders' = logUploaders \cup {bounded[idx].name}
    /\ backgroundCommands' = Append(backgroundCommands, bounded[idx].name)
    /\ stepResult' = [success |-> FALSE, exit |-> FALSE]
    /\ outcomes' = Append(outcomes, <<bounded[idx].name, "failure">>)
    /\ pc' = "stepReturned"
    /\ stepReturn' = "launchFailed"
    /\ UNCHANGED <<ctxCancelled, launchVars, fetchVars, envVars, failedAtLeastOnce,
                   bounded, idx, terminalWrapper, ubVars, procs, killCalled,
                   finalized, drainIdx, dispatched, reportVars, partVars,
                   metricsResult, stepDeadline, terminalOps>>

\* BackgroundScript, not launched: Finalize, success=false
StepBackgroundError ==
    /\ pc = "step"
    /\ bounded[idx].instruction = "BackgroundScript"
    /\ logUploaders' = logUploaders \cup {bounded[idx].name}
    /\ finalized' = Finalize(bounded[idx].name)
    /\ stepResult' = [success |-> FALSE, exit |-> FALSE]
    /\ outcomes' = Append(outcomes, <<bounded[idx].name, "failure">>)
    /\ pc' = "stepReturned"
    /\ stepReturn' = "launchFailed"
    /\ UNCHANGED <<ctxCancelled, launchVars, fetchVars, envVars, failedAtLeastOnce,
                   bounded, idx, terminalWrapper, ubVars, backgroundCommands, procs,
                   killCalled, drainIdx, dispatched, reportVars, partVars, metricsResult,
                   stepDeadline, terminalOps>>

\* a background process ends by itself while the build goes on
BackgroundProcessExits ==
    /\ pc \in {"loop", "step", "stepReturned", "drain"}
    /\ \E n \in AllNames :
        /\ procs[n] = "running"
        /\ procs' = [procs EXCEPT ![n] = "exited"]
    /\ UNCHANGED <<pc, ctxCancelled, launchVars, fetchVars, envVars, loopVars,
                   ubVars, backgroundCommands, killCalled, logUploaders, finalized,
                   drainIdx, logVars, reportVars, unitVars>>

(***************************************************************************)
(* RunBuild: teardown.                                                     *)
(***************************************************************************)
\* attempts of retry.Do around ReportAgentFinished
ReportAttempts == 2
\* errors a metrics result carries at most
MaxMetricsErrors == 1

\* the loop is over: ub.Flush
FinalFlush ==
    /\ pc = "loop"
    /\ idx > Len(bounded)
    /\ sent' = sent \o updates
    /\ updates' = <<>>
    /\ drainIdx' = 1
    /\ pc' = "drain"
    /\ UNCHANGED <<ctxCancelled, launchVars, fetchVars, envVars, loopVars, history,
                   backgroundCommands, procs, killCalled, logUploaders, finalized,
                   logVars, reportVars, unitVars>>

\* DrainOne with the call of Process.Kill left out
DrainOneNoKill ==
    /\ pc = "drain"
    /\ drainIdx <= Len(backgroundCommands)
    /\ finalized' = Finalize(backgroundCommands[drainIdx])
    /\ drainIdx' = drainIdx + 1
    /\ UNCHANGED <<pc, ctxCancelled, launchVars, fetchVars, envVars, loopVars,
                   ubVars, backgroundCommands, procs, killCalled, logUploaders,
                   logVars, reportVars, unitVars>>

\* one entry of the registry: Process.Kill, Logs.Finalize
DrainOne ==
    /\ pc = "drain"
    /\ drainIdx <= Len(backgroundCommands)
    /\ killCalled' = killCalled \cup {backgroundCommands[drainIdx]}
    /\ procs' = [procs EXCEPT ![backgroundCommands[drainIdx]] =
                    IF @ = "running" THEN "killed" ELSE @]
    /\ finalized' = Finalize(backgroundCommands[drainIdx])
    /\ drainIdx' = drainIdx + 1
    /\ UNCHANGED <<pc, ctxCancelled, launchVars, fetchVars, envVars, loopVars,
                   ubVars, backgroundCommands, logUploaders, logVars, reportVars,
                   unitVars>>

\* metricsCancel, and the result arrives: a warning per error
MetricsResult ==
    /\ pc = "drain"
    /\ drainIdx > Len(backgroundCommands)
    /\ \E n \in 0..MaxMetricsErrors :
        /\ metricsResult' = [arrived |-> TRUE, errors |-> n, timedOut |-> FALSE]
        /\ agentWarnings' = agentWarnings + n
    /\ resourceUtilization' = "measured"
    /\ pc' = "report"
    /\ UNCHANGED <<ctxCancelled, launchVars, fetchVars, envVars, loopVars, ubVars,
                   bgVars, logVars, agentErrors, finishedReports, reportResults,
                   partVars, stepReturn,
                   stepDeadline, terminalOps>>

\* MetricsTimeout without the warning
MetricsTimeoutSilent ==
    /\ pc = "drain"
    /\ drainIdx > Len(backgroundCommands)
    /\ metricsResult' = [arrived |-> FALSE, errors |-> 0, timedOut |-> TRUE]
    /\ pc' = "report"
    /\ UNCHANGED <<ctxCancelled, launchVars, fetchVars, envVars, loopVars, ubVars,
                   bgVars, logVars, reportVars, partVars, stepReturn,
                   stepDeadline, terminalOps>>

\* metricsCancel, and 3 seconds pass first: one warning
MetricsTimeout ==
    /\ pc = "drain"
    /\ drainIdx > Len(backgroundCommands)
    /\ metricsResult' = [arrived |-> FALSE, errors |-> 0, timedOut |-> TRUE]
    /\ agentWarnings' = agentWarnings + 1
    /\ pc' = "report"
    /\ UNCHANGED <<ctxCancelled, launchVars, fetchVars, envVars, loopVars, ubVars,
                   bgVars, logVars, agentErrors, finishedReports, reportResults,
                   resourceUtilization, partVars, stepReturn,
                   stepDeadline, terminalOps>>

FinishedRequest == [history |-> history, utilization |-> resourceUtilization]

\* ReportAgentFinished succeeds: RunBuild returns
ReportFinishedOk ==
    /\ pc = "report"
    /\ finishedReports' = Append(finishedReports, FinishedRequest)
    /\ reportResults' = Append(reportResults, "ok")
    /\ pc' = "returned"
    /\ UNCHANGED <<ctxCancelled, launchVars, fetchVars, envVars, loopVars, ubVars,
                   bgVars, logVars, agentErrors, agentWarnings,
                   resourceUtilization, unitVars>>

\* ReportAgentFinished fails, it was not the last attempt and the 10-second
\* delay passes: the next attempt follows
ReportFinishedError ==
    /\ pc = "report"
    /\ Len(finishedReports) + 1 < ReportAttempts
    /\ finishedReports' = Append(finishedReports, FinishedRequest)
    /\ reportResults' = Append(reportResults, "error")
    /\ UNCHANGED <<pc, ctxCancelled, launchVars, fetchVars, envVars, loopVars,
                   ubVars, bgVars, logVars, agentErrors, agentWarnings,
                   resourceUtilization, unitVars>>

\* ReportAgentFinished fails, it was not the last attempt and the context is
\* cancelled before the delay passes: RunBuild returns
ReportFinishedCancelled ==
    /\ pc = "report"
    /\ Len(finishedReports) + 1 < ReportAttempts
    /\ finishedReports' = Append(finishedReports, FinishedRequest)
    /\ reportResults' = Append(reportResults, "error")
    /\ ctxCancelled' = TRUE
    /\ pc' = "returned"
    /\ UNCHANGED <<launchVars, fetchVars, envVars, loopVars, ubVars, bgVars,
                   logVars, agentErrors, agentWarnings, resourceUtilization,
                   unitVars>>

\* ReportFinishedLastError with one more attempt to follow
ReportFinishedLastErrorRetries ==
    /\ pc = "report"
    /\ Len(finishedReports) + 1 >= ReportAttempts
    /\ Len(finishedReports) <= ReportAttempts
    /\ finishedReports' = Append(finishedReports, FinishedRequest)
    /\ reportResults' = Append(reportResults, "error")
    /\ UNCHANGED <<pc, ctxCancelled, launchVars, fetchVars, envVars, loopVars,
                   ubVars, bgVars, logVars, agentErrors, agentWarnings,
                   resourceUtilization, unitVars>>

\* ReportAgentFinished fails at the last attempt: RunBuild returns
ReportFinishedLastError ==
    /\ pc = "report"
    /\ Len(finishedReports) + 1 >= ReportAttempts
    /\ finishedReports' = Append(finishedReports, FinishedRequest)
    /\ reportResults' = Append(reportResults, "error")
    /\ pc' = "returned"
    /\ UNCHANGED <<ctxCancelled, launchVars, fetchVars, envVars, loopVars, ubVars,
                   bgVars, logVars, agentErrors, agentWarnings,
                   resourceUtilization, unitVars>>

(***************************************************************************)
(* The run of the agent.                                                   *)
(***************************************************************************)
Next ==
    \/ FetchError \/ FetchCancelled \/ FetchOk
    \/ TokenMismatch \/ TokenOk \/ PanicRecover
    \/ UnboxNotBoxed \/ UnboxParseError \/ UnboxVaultError \/ UnboxReadError
    \/ UnboxOk
    \/ SetupEmpty \/ SetupPanic \/ SetupLoop
    \/ LoopSkip \/ LoopDispatch \/ LoopExit \/ LoopStepDone
    \/ StepLogUploaderError \/ StepCirrusEnvError \/ StepExit \/ StepForeground
    \/ StepTerminalLog \/ StepTerminalExit
    \/ StepBackgroundStarted \/ StepBackgroundError \/ BackgroundProcessExits
    \/ FinalFlush \/ DrainOne \/ MetricsResult \/ MetricsTimeout
    \/ ReportFinishedOk \/ ReportFinishedError \/ ReportFinishedCancelled
    \/ ReportFinishedLastError

Spec == Init /\ [][Next]_vars

(***************************************************************************)
(* The run of the agent with the deadline of the steps. RunBuild derives   *)
(* subCtx from the parent context with the timeout of the response and     *)
(* hands it to performStep (and to the terminal wrapper) only; the batcher *)
(* flushes, the clean-up loop, the metrics warnings and ReportAgentFinished*)
(* are given the parent context. The deadline may pass at any moment       *)
(* between the head of the loop and the return of RunBuild. What a handler *)
(* makes of a context whose deadline has passed is left open: a step       *)
(* returns any of the results it may return before the deadline.           *)
(***************************************************************************)
DeadlineExpires ==
    /\ pc \in {"loop", "step", "stepReturned", "drain", "report"}
    /\ stepDeadline = "live"
    /\ stepDeadline' = "expired"
    /\ UNCHANGED <<pc, ctxCancelled, launchVars, fetchVars, envVars, loopVars,
                   ubVars, bgVars, logVars, reportVars, partVars, metricsResult,
                   stepReturn, terminalOps>>

NextDeadline ==
    \/ FetchError \/ FetchCancelled \/ FetchOk
    \/ TokenMismatch \/ TokenOk \/ PanicRecover
    \/ UnboxNotBoxed \/ UnboxParseError \/ UnboxVaultError \/ UnboxReadError
    \/ UnboxOk
    \/ SetupEmpty \/ SetupPanic \/ SetupLoop
    \/ DeadlineExpires
    \/ LoopSkip \/ LoopDispatch \/ LoopExit \/ LoopStepDone
    \/ StepLogUploaderError \/ StepCirrusEnvError \/ StepExit \/ StepForeground
    \/ StepTerminalLog \/ StepTerminalExit
    \/ StepBackgroundStarted \/ StepBackgroundError \/ BackgroundProcessExits
    \/ FinalFlush \/ DrainOne \/ MetricsResult \/ MetricsTimeout
    \/ ReportFinishedOk \/ ReportFinishedError \/ ReportFinishedCancelled
    \/ ReportFinishedLastError

SpecDeadline == Init /\ [][NextDeadline]_vars

(***************************************************************************)
(* BoundedCommands on its own, over command lists with unique names and    *)
(* bounds that may name a member, nothing, or a name not in the list.      *)
(***************************************************************************)
BoundedNames == { CommandNames[i] : i \in 1..MaxBoundedLen }

UniqueNameLists ==
    { [i \in DOMAIN s |-> Command(s[i], "ALWAYS", "Script")] :
        s \in { t \in UNION { [1..n -> BoundedNames] : n \in 0..MaxBoundedLen } :
                  \A i, j \in DOMAIN t : t[i] = t[j] => i = j } }

BoundNames == {"", "absent"} \cup BoundedNames

InitBounded ==
    /\ pc = "bounded"
    /\ commandFrom = ""
    /\ commandTo = ""
    /\ Constructed
    /\ bcIn \in { [commands |-> c, fromName |-> f, toName |-> t] :
                    c \in UniqueNameLists, f \in BoundNames, t \in BoundNames }
    /\ bcOut = NoBounded
    /\ TransportIdle
    /\ ScriptIdle
    /\ MainIdle

ApplyBoundedCommands ==
    /\ pc = "bounded"
    /\ bcOut' = BoundedCommands(bcIn.commands, bcIn.fromName, bcIn.toName)
    /\ pc' = "boundedDone"
    /\ UNCHANGED <<ctxCancelled, launchVars, fetchVars, envVars, loopVars, ubVars,
                   bgVars, logVars, reportVars, bcIn, transportVars, scriptVars,
                   mainVars,
                   cloneVars, stepVars>>

NextBounded == ApplyBoundedCommands

SpecBounded == InitBounded /\ [][NextBounded]_vars

(***************************************************************************)
(* transportSettings on its own. An endpoint is a string of symbols: the   *)
(* pieces "http", "s", "://" and "unix" the function looks for, and "h"    *)
(* for any other text.                                                     *)
(***************************************************************************)
MaxEndpointLen == 5

EndpointSymbols == {"http", "s", "://", "unix", "h"}

Endpoints == UNION { [1..n -> EndpointSymbols] : n \in 0..MaxEndpointLen }

SchemeHttp == <<"http", "://">>
SchemeHttps == <<"http", "s", "://">>
SchemeUnix == <<"unix", "://">>
SchemeSeparator == <<"://">>

\* strings.HasPrefix
HasPrefix(str, prefix) ==
    /\ Len(prefix) <= Len(str)
    /\ SubSeq(str, 1, Len(prefix)) = prefix

\* strings.TrimPrefix
TrimPrefix(str, prefix) ==
    IF HasPrefix(str, prefix) THEN SubSeq(str, Len(prefix) + 1, Len(str)) ELSE str

\* strings.Contains
Contains(str, sub) ==
    \E i \in 1..(Len(str) - Len(sub) + 1) : SubSeq(str, i, i + Len(sub) - 1) = sub

transportSettings(endpoint) ==
    [target |-> TrimPrefix(TrimPrefix(endpoint, SchemeHttp), SchemeHttps),
     insecure |-> ~(Contains(endpoint, SchemeHttps)
                    \/ ~Contains(endpoint, SchemeSeparator))]

InitTransport ==
    /\ pc = "transport"
    /\ commandFrom = ""
    /\ commandTo = ""
    /\ Constructed
    /\ BoundedIdle
    /\ ScriptIdle
    /\ MainIdle
    /\ apiEndpoint \in Endpoints
    /\ transport = NoTransport

ApplyTransportSettings ==
    /\ pc = "transport"
    /\ transport' = transportSettings(apiEndpoint)
    /\ pc' = "transportDone"
    /\ UNCHANGED <<ctxCancelled, launchVars, fetchVars, envVars, loopVars, ubVars,
                   bgVars, logVars, reportVars, bcVars, apiEndpoint, scriptVars,
                   mainVars,
                   cloneVars, stepVars>>

NextTransport == ApplyTransportSettings

SpecTransport == InitTransport /\ [][NextTransport]_vars

(***************************************************************************)
(* performStep of a Script step on its own: the prologue, the script and   *)
(* the reading of its result, the epilogue that merges the step's          *)
(* CIRRUS_ENV file.                                                        *)
(***************************************************************************)
\* what ShellCommandsAndWait may return: the error, how the child ended, and
\* whether ProcessState.Sys() is a syscall.WaitStatus
ScriptWaits ==
    [err : {"nil", "TimeOutError", "other"},
     exit : {"zero", "nonzero", "signaled"},
     waitStatus : BOOLEAN]

\* the environment a step may find: what earlier steps left in it
StepEnvironments ==
    { [k \in D |-> IF k = "CIRRUS_ENV_SENSITIVE" THEN "true" ELSE "earlier"] :
        D \in SUBSET {"CIRRUS_ENV_SENSITIVE", "TOKEN"} }

\* what a step may write to its CIRRUS_ENV file
CirrusEnvFiles ==
    { [k \in D |-> IF k = "CIRRUS_ENV_SENSITIVE" THEN "true"
                   ELSE IF k = "TOKEN" THEN "tokenOfStep" ELSE "valueOfStep"] :
        D \in SUBSET {"CIRRUS_ENV_SENSITIVE", "TOKEN", "OTHER"} }

ValuesOf(items) == { items[k] : k \in DOMAIN items }

\* environment.Merge: the values are registered when markSensitive is set
MergeSensitive(values, items, markSensitive) ==
    IF markSensitive THEN values \cup ValuesOf(items) ELSE values

\* the result of a Script step with signaledToExit read whatever the wait
\* returned
ScriptStepResultAnyError(wait) ==
    [success |-> wait.err = "nil" /\ wait.exit = "zero",
     signaledToExit |-> wait.waitStatus /\ wait.exit = "signaled"]

\* the Script case of the switch in performStep
ScriptStepResult(wait) ==
    LET success == wait.err = "nil" /\ wait.exit = "zero"
        signaled == IF wait.err = "nil" /\ wait.waitStatus
                    THEN wait.exit = "signaled" ELSE FALSE
    IN  [success |-> success,
         signaledToExit |-> IF wait.err = "TimeOutError" THEN FALSE ELSE signaled]

InitScript ==
    /\ pc = "prologue"
    /\ commandFrom = ""
    /\ commandTo = ""
    /\ Constructed
    /\ BoundedIdle
    /\ TransportIdle
    /\ ScriptIdle
    /\ MainIdle

\* the log uploader and the CIRRUS_ENV file are there; the path of the file
\* is set in the environment the step finds
ScriptPrologue ==
    /\ pc = "prologue"
    /\ \E e \in StepEnvironments : env' = EnvSet(e, "CIRRUS_ENV", "path")
    /\ pc' = "script"
    /\ UNCHANGED <<ctxCancelled, launchVars, fetchVars, sensitive, toVisit,
                   vaultUnboxer, vaultClients, loginAttempts, preludeFailure,
                   loopVars, ubVars, bgVars, logVars, reportVars, unitVars>>

\* the script runs, writes its CIRRUS_ENV file, and the wait returns
ScriptRuns ==
    /\ pc = "script"
    /\ \E w \in ScriptWaits :
        /\ scriptWait' = w
        /\ scriptOut' = ScriptStepResult(w)
    /\ \E f \in CirrusEnvFiles : cirrusEnvFile' = f
    /\ pc' = "epilogue"
    /\ UNCHANGED <<ctxCancelled, launchVars, fetchVars, envVars, loopVars, ubVars,
                   bgVars, logVars, reportVars, bcVars, transportVars, consumed,
                   mainVars,
                   cloneVars, stepVars>>

\* the epilogue: Consume, which may fail and then returns nothing, the lookup
\* of CIRRUS_ENV_SENSITIVE, the merge
ScriptEpilogue ==
    /\ pc = "epilogue"
    /\ \E ok \in BOOLEAN :
        LET variables == IF ok THEN cirrusEnvFile ELSE EmptyEnv
            isSensitive == "CIRRUS_ENV_SENSITIVE" \in DOMAIN env
        IN  /\ consumed' = variables
            /\ env' = Merge(env, variables)
            /\ sensitive' = MergeSensitive(sensitive, variables, isSensitive)
    /\ pc' = "scriptDone"
    /\ UNCHANGED <<ctxCancelled, launchVars, fetchVars, toVisit, vaultUnboxer,
                   vaultClients, loginAttempts, preludeFailure, loopVars, ubVars,
                   bgVars, logVars, reportVars, bcVars, transportVars, scriptWait,
                   cirrusEnvFile, scriptOut, mainVars,
                   cloneVars, stepVars>>

NextScript == ScriptPrologue \/ ScriptRuns \/ ScriptEpilogue

SpecScript == InitScript /\ [][NextScript]_vars

(***************************************************************************)
(* main on its own: the flags, the dial loop, the stop hook, the signal    *)
(* receiver, the heartbeat, the executor, the upload of the agent's log.   *)
(* RunBuild is one step here. signalChannel is unbuffered, so a signal     *)
(* that arrives while the receiver is not blocked on the channel is        *)
(* dropped, and the receiver takes one signal and ends.                    *)
(***************************************************************************)
\* failed dials that are followed one by one
MaxDialFailures == 2
\* signals delivered to the process after signal.Notify
MaxSignals == 2

\* everything main leaves to RunBuild and to the functions followed on
\* their own
besideMainVars == <<ctxCancelled, launchVars, fetchVars, envVars, loopVars,
                    ubVars, bgVars, logVars, agentWarnings, finishedReports,
                    reportResults, resourceUtilization, bcVars, transportVars,
                    scriptVars,
                    cloneVars, stepVars>>

InitMain ==
    /\ pc = "mainStart"
    /\ commandFrom = ""
    /\ commandTo = ""
    /\ Constructed
    /\ BoundedIdle
    /\ TransportIdle
    /\ ScriptIdle
    /\ flags \in [help : BOOLEAN, stopHook : BOOLEAN]
    /\ conn = "nil"
    /\ dialFailures = 0
    /\ stopHookCalls = <<>>
    /\ logFileRemoved = FALSE
    /\ heartbeats = "none"
    /\ receiver = "none"
    /\ signalsDelivered = 0
    /\ signalReports = 0
    /\ executorRuns = 0

\* --help: the defaults are printed and the process exits
MainHelp ==
    /\ pc = "mainStart"
    /\ flags.help
    /\ pc' = "mainExited"
    /\ UNCHANGED <<besideMainVars, agentErrors, mainVars>>

\* the log file is opened and the dial loop entered
MainStart ==
    /\ pc = "mainStart"
    /\ ~flags.help
    /\ pc' = "dial"
    /\ UNCHANGED <<besideMainVars, agentErrors, mainVars>>

\* DialFails that gives up and leaves the loop
DialFailsAndLeaves ==
    /\ pc = "dial"
    /\ dialFailures < MaxDialFailures
    /\ dialFailures' = dialFailures + 1
    /\ pc' = "dialed"
    /\ UNCHANGED <<besideMainVars, agentErrors, flags, conn, stopHookCalls,
                   logFileRemoved, heartbeats, receiver, signalsDelivered,
                   signalReports, executorRuns>>

\* dialWithTimeout returns an error: a second of sleep and the next attempt
DialFails ==
    /\ pc = "dial"
    /\ dialFailures < MaxDialFailures
    /\ dialFailures' = dialFailures + 1
    /\ UNCHANGED <<pc, besideMainVars, agentErrors, flags, conn, stopHookCalls,
                   logFileRemoved, heartbeats, receiver, signalsDelivered,
                   signalReports, executorRuns>>

\* dialWithTimeout returns a connection: the loop is left
DialOk ==
    /\ pc = "dial"
    /\ conn' = "established"
    /\ pc' = "dialed"
    /\ UNCHANGED <<besideMainVars, agentErrors, flags, dialFailures,
                   stopHookCalls, logFileRemoved, heartbeats, receiver,
                   signalsDelivered, signalReports, executorRuns>>

\* client.InitClient(conn), and the branch on --stop-hook
MainInitClient ==
    /\ pc = "dialed"
    /\ pc' = IF flags.stopHook THEN "stopHook" ELSE "notify"
    /\ UNCHANGED <<besideMainVars, agentErrors, mainVars>>

\* ReportStopHook succeeds: the log file is closed and removed, os.Exit(0)
StopHookOk ==
    /\ pc = "stopHook"
    /\ stopHookCalls' = Append(stopHookCalls, "ok")
    /\ logFileRemoved' = TRUE
    /\ pc' = "mainExited"
    /\ UNCHANGED <<besideMainVars, agentErrors, flags, conn, dialFailures,
                   heartbeats, receiver, signalsDelivered, signalReports,
                   executorRuns>>

\* StopHookError that removes the log file all the same
StopHookErrorRemovesLog ==
    /\ pc = "stopHook"
    /\ stopHookCalls' = Append(stopHookCalls, "error")
    /\ logFileRemoved' = TRUE
    /\ pc' = "mainExited"
    /\ UNCHANGED <<besideMainVars, agentErrors, flags, conn, dialFailures,
                   heartbeats, receiver, signalsDelivered, signalReports,
                   executorRuns>>

\* ReportStopHook fails: the failure is logged, os.Exit(0)
StopHookError ==
    /\ pc = "stopHook"
    /\ stopHookCalls' = Append(stopHookCalls, "error")
    /\ pc' = "mainExited"
    /\ UNCHANGED <<besideMainVars, agentErrors, flags, conn, dialFailures,
                   logFileRemoved, heartbeats, receiver, signalsDelivered,
                   signalReports, executorRuns>>

\* the recover is deferred, signal.Notify is called and the receiver started
MainNotify ==
    /\ pc = "notify"
    /\ receiver' = "started"
    /\ pc' = "heartbeat"
    /\ UNCHANGED <<besideMainVars, agentErrors, flags, conn, dialFailures,
                   stopHookCalls, logFileRemoved, heartbeats, signalsDelivered,
                   signalReports, executorRuns>>

\* the receiver blocks on signalChannel
ReceiverWaits ==
    /\ receiver = "started"
    /\ pc # "mainExited"
    /\ receiver' = "waiting"
    /\ UNCHANGED <<pc, besideMainVars, agentErrors, flags, conn, dialFailures,
                   stopHookCalls, logFileRemoved, heartbeats, signalsDelivered,
                   signalReports, executorRuns>>

\* a signal is delivered after signal.Notify: the receiver blocked on the
\* channel takes it, otherwise it is dropped
SignalDelivered ==
    /\ receiver # "none"
    /\ pc # "mainExited"
    /\ signalsDelivered < MaxSignals
    /\ signalsDelivered' = signalsDelivered + 1
    /\ receiver' = IF receiver = "waiting" THEN "received" ELSE receiver
    /\ UNCHANGED <<pc, besideMainVars, agentErrors, flags, conn, dialFailures,
                   stopHookCalls, logFileRemoved, heartbeats, signalReports,
                   executorRuns>>

\* the receiver sends ReportAgentSignal and ends
ReceiverReports ==
    /\ receiver = "received"
    /\ pc # "mainExited"
    /\ signalReports' = signalReports + 1
    /\ receiver' = "done"
    /\ UNCHANGED <<pc, besideMainVars, agentErrors, flags, conn, dialFailures,
                   stopHookCalls, logFileRemoved, heartbeats, signalsDelivered,
                   executorRuns>>

\* go runHeartbeat
MainHeartbeat ==
    /\ pc = "heartbeat"
    /\ heartbeats' = "running"
    /\ pc' = "run"
    /\ UNCHANGED <<besideMainVars, agentErrors, flags, conn, dialFailures,
                   stopHookCalls, logFileRemoved, receiver, signalsDelivered,
                   signalReports, executorRuns>>

\* NewExecutor and RunBuild, which returns
MainRunBuild ==
    /\ pc = "run"
    /\ executorRuns' = executorRuns + 1
    /\ pc' = "upload"
    /\ UNCHANGED <<besideMainVars, agentErrors, flags, conn, dialFailures,
                   stopHookCalls, logFileRemoved, heartbeats, receiver,
                   signalsDelivered, signalReports>>

\* NewExecutor and RunBuild, which panics: the deferred recover sends
\* ReportAgentError and main returns
MainRunBuildPanics ==
    /\ pc = "run"
    /\ executorRuns' = executorRuns + 1
    /\ agentErrors' = agentErrors + 1
    /\ pc' = "mainExited"
    /\ UNCHANGED <<besideMainVars, flags, conn, dialFailures, stopHookCalls,
                   logFileRemoved, heartbeats, receiver, signalsDelivered,
                   signalReports>>

\* uploadAgentLogs: the file is removed when it was read and ReportAgentLogs
\* succeeded
MainUploadLogs ==
    /\ pc = "upload"
    /\ \E uploaded \in BOOLEAN : logFileRemoved' = uploaded
    /\ pc' = "mainExited"
    /\ UNCHANGED <<besideMainVars, agentErrors, flags, conn, dialFailures,
                   stopHookCalls, heartbeats, receiver, signalsDelivered,
                   signalReports, executorRuns>>

NextMain ==
    \/ MainHelp \/ MainStart
    \/ DialFails \/ DialOk \/ MainInitClient
    \/ StopHookOk \/ StopHookError
    \/ MainNotify \/ ReceiverWaits \/ SignalDelivered \/ ReceiverReports
    \/ MainHeartbeat \/ MainRunBuild \/ MainRunBuildPanics \/ MainUploadLogs

SpecMain == InitMain /\ [][NextMain]_vars

(***************************************************************************)
(* The clean-up loop of RunBuild met twice by one Executor. RunBuild is an *)
(* exported method and the registry is a field of the Executor: NewExecutor*)
(* makes it empty, performStep appends to it, and nothing takes an entry   *)
(* out or marks it as cleaned up. A second call of RunBuild on the same    *)
(* Executor therefore finds the entries of the first call in the registry. *)
(* The steps between the loops are left to Spec; what is followed here is  *)
(* the registry, the processes and the log uploaders of its entries.       *)
(***************************************************************************)
NamesIn(registry) == { registry[i] : i \in DOMAIN registry }

besideDrainVars == <<ctxCancelled, launchVars, fetchVars, envVars, loopVars,
                     ubVars, logVars, reportVars, unitVars>>

InitDrain ==
    /\ pc = "bgFirst"
    /\ commandFrom = ""
    /\ commandTo = ""
    /\ Constructed
    /\ BoundedIdle
    /\ TransportIdle
    /\ ScriptIdle
    /\ MainIdle

\* performStep, BackgroundScript launched: the entry is appended
DrainRegisters ==
    /\ pc \in {"bgFirst", "bgSecond"}
    /\ Len(backgroundCommands) < MaxCmds
    /\ \E n \in AllNames \ NamesIn(backgroundCommands) :
        /\ logUploaders' = logUploaders \cup {n}
        /\ backgroundCommands' = Append(backgroundCommands, n)
        /\ procs' = [procs EXCEPT ![n] = "running"]
    /\ UNCHANGED <<pc, killCalled, finalized, drainIdx, besideDrainVars>>

\* a background process ends by itself
DrainProcessExits ==
    /\ pc \in {"bgFirst", "drainFirst", "bgSecond", "drainSecond"}
    /\ \E n \in AllNames :
        /\ procs[n] = "running"
        /\ procs' = [procs EXCEPT ![n] = "exited"]
    /\ UNCHANGED <<pc, backgroundCommands, killCalled, logUploaders, finalized,
                   drainIdx, besideDrainVars>>

\* the steps are over: the loop starts at the first entry
DrainBegins ==
    /\ pc \in {"bgFirst", "bgSecond"}
    /\ drainIdx' = 1
    /\ pc' = IF pc = "bgFirst" THEN "drainFirst" ELSE "drainSecond"
    /\ UNCHANGED <<backgroundCommands, procs, killCalled, logUploaders,
                   finalized, besideDrainVars>>

\* one entry of the registry: Process.Kill, Logs.Finalize
DrainEntry ==
    /\ pc \in {"drainFirst", "drainSecond"}
    /\ drainIdx <= Len(backgroundCommands)
    /\ killCalled' = killCalled \cup {backgroundCommands[drainIdx]}
    /\ procs' = [procs EXCEPT ![backgroundCommands[drainIdx]] =
                    IF @ = "running" THEN "killed" ELSE @]
    /\ finalized' = Finalize(backgroundCommands[drainIdx])
    /\ drainIdx' = drainIdx + 1
    /\ UNCHANGED <<pc, backgroundCommands, logUploaders, besideDrainVars>>

\* the loop is over; the registry keeps its entries
DrainEnds ==
    /\ pc \in {"drainFirst", "drainSecond"}
    /\ drainIdx > Len(backgroundCommands)
    /\ pc' = IF pc = "drainFirst" THEN "bgSecond" ELSE "drainedTwice"
    /\ UNCHANGED <<backgroundCommands, procs, killCalled, logUploaders,
                   finalized, drainIdx, besideDrainVars>>

NextDrain ==
    \/ DrainRegisters
    \/ DrainProcessExits
    \/ DrainBegins
    \/ DrainEntry
    \/ DrainEnds

SpecDrain == InitDrain /\ [][NextDrain]_vars

(***************************************************************************)
(* CloneRepository on its own. An error of the Git library is a message, a *)
(* string of symbols; <<>> stands for nil. What the library returns at     *)
(* each fetch or clone is an input, and so are the outcomes of the calls   *)
(* before the first attempt and after the last one.                        *)
(***************************************************************************)
\* longest error message, in symbols
MaxErrorLen == 2

ErrorSymbols ==
    {"Timeout", "tls", "connection", "authentication", "not", " found",
     "couldn't find remote ref"}

CloneErrors == UNION { [1..n -> ErrorSymbols] : n \in 1..MaxErrorLen }

\* strings.ToLower
ToLower(str) == [i \in DOMAIN str |-> IF str[i] = "Timeout" THEN "timeout" ELSE str[i]]

\* retryableCloneError without strings.ToLower
retryableCloneErrorCaseSensitive(err) ==
    IF err = <<>> THEN FALSE
    ELSE IF Contains(err, <<"timeout">>) THEN TRUE
    ELSE IF Contains(err, <<"tls">>) THEN TRUE
    ELSE IF Contains(err, <<"connection">>) THEN TRUE
    ELSE IF Contains(err, <<"authentication">>) THEN TRUE
    ELSE IF Contains(err, <<"not", " found">>) THEN TRUE
    ELSE FALSE

retryableCloneError(err) ==
    IF err = <<>> THEN FALSE
    ELSE LET errorMessage == ToLower(err)
         IN  IF Contains(errorMessage, <<"timeout">>) THEN TRUE
             ELSE IF Contains(errorMessage, <<"tls">>) THEN TRUE
             ELSE IF Contains(errorMessage, <<"connection">>) THEN TRUE
             ELSE IF Contains(errorMessage, <<"authentication">>) THEN TRUE
             ELSE IF Contains(errorMessage, <<"not", " found">>) THEN TRUE
             ELSE FALSE

\* the head ref is missing: the fetch falls back to the merge ref
FallBackDue ==
    /\ pc = "headFetched"
    /\ cloneErr # <<>>
    /\ Contains(cloneErr, <<"couldn't find remote ref">>)

besideCloneVars == <<ctxCancelled, launchVars, fetchVars, sensitive, toVisit,
                     vaultUnboxer, vaultClients, loginAttempts, preludeFailure,
                     loopVars, ubVars, bgVars, logVars, reportVars, bcVars,
                     transportVars, scriptVars, mainVars, stepVars>>

InitClone ==
    /\ pc = "cloneStart"
    /\ commandFrom = ""
    /\ commandTo = ""
    /\ Constructed
    /\ BoundedIdle
    /\ TransportIdle
    /\ ScriptIdle
    /\ MainIdle

\* the environment the step finds: CIRRUS_PR and CIRRUS_TAG set or not
CloneStart ==
    /\ pc = "cloneStart"
    /\ \E F \in SUBSET {"CIRRUS_PR", "CIRRUS_TAG"} : env' = [k \in F |-> "set"]
    /\ pc' = "clone"
    /\ UNCHANGED <<besideCloneVars, cloneVars>>

\* CACerts fails, or PlainInit or CreateRemote in PR mode: false
CloneSetupError ==
    /\ pc = "clone"
    /\ cloneResult' = "false"
    /\ pc' = "cloneDone"
    /\ UNCHANGED <<besideCloneVars, env, cloneAttempts, cloneErr>>

\* PR mode: the fetch of the head ref
CloneFetchHead ==
    /\ pc = "clone"
    /\ "CIRRUS_PR" \in DOMAIN env
    /\ \E err \in CloneErrors \cup {<<>>} : cloneErr' = err
    /\ cloneAttempts' = Append(cloneAttempts, [op |-> "fetchHead", wiped |-> FALSE])
    /\ pc' = "headFetched"
    /\ UNCHANGED <<besideCloneVars, env, cloneResult>>

\* PR mode: the fetch of the merge ref
CloneFallBack ==
    /\ FallBackDue
    /\ \E err \in CloneErrors \cup {<<>>} : cloneErr' = err
    /\ cloneAttempts' = Append(cloneAttempts, [op |-> "fetchMerge", wiped |-> FALSE])
    /\ pc' = "fetched"
    /\ UNCHANGED <<besideCloneVars, env, cloneResult>>

\* PR mode: a retryable error, the fetch once more
CloneFetchRetry ==
    /\ pc \in {"headFetched", "fetched"}
    /\ ~FallBackDue
    /\ retryableCloneError(cloneErr)
    /\ \E err \in CloneErrors \cup {<<>>} : cloneErr' = err
    /\ cloneAttempts' = Append(cloneAttempts, [op |-> "fetchRetry", wiped |-> FALSE])
    /\ pc' = "retried"
    /\ UNCHANGED <<besideCloneVars, env, cloneResult>>

\* branch or tag mode: PlainCloneContext
ClonePlain ==
    /\ pc = "clone"
    /\ "CIRRUS_PR" \notin DOMAIN env
    /\ \E err \in CloneErrors \cup {<<>>} : cloneErr' = err
    /\ cloneAttempts' = Append(cloneAttempts, [op |-> "clone", wiped |-> FALSE])
    /\ pc' = "plainCloned"
    /\ UNCHANGED <<besideCloneVars, env, cloneResult>>

\* branch or tag mode: a retryable error, RemoveAll and EnsureFolderExists
\* of the working directory, PlainClone
CloneAgain ==
    /\ pc = "plainCloned"
    /\ retryableCloneError(cloneErr)
    /\ \E err \in CloneErrors \cup {<<>>} : cloneErr' = err
    /\ cloneAttempts' = Append(cloneAttempts, [op |-> "cloneRetry", wiped |-> TRUE])
    /\ pc' = "retried"
    /\ UNCHANGED <<besideCloneVars, env, cloneResult>>

\* no further attempt: an error that is left returns false
CloneAttemptsEnd ==
    /\ pc \in {"headFetched", "fetched", "plainCloned", "retried"}
    /\ ~FallBackDue
    /\ pc = "retried" \/ ~retryableCloneError(cloneErr)
    /\ IF cloneErr # <<>>
       THEN cloneResult' = "false" /\ pc' = "cloneDone"
       ELSE cloneResult' = cloneResult /\ pc' = "cloned"
    /\ UNCHANGED <<besideCloneVars, env, cloneAttempts, cloneErr>>

\* the checkout, HEAD, the hard reset and the submodules: true, or false at
\* the first of them that fails
CloneRest ==
    /\ pc = "cloned"
    /\ \E ok \in BOOLEAN : cloneResult' = IF ok THEN "true" ELSE "false"
    /\ pc' = "cloneDone"
    /\ UNCHANGED <<besideCloneVars, env, cloneAttempts, cloneErr>>

NextClone ==
    \/ CloneStart
    \/ CloneSetupError
    \/ CloneFetchHead
    \/ CloneFallBack
    \/ CloneFetchRetry
    \/ ClonePlain
    \/ CloneAgain
    \/ CloneAttemptsEnd
    \/ CloneRest

SpecClone == InitClone /\ [][NextClone]_vars

(***************************************************************************)
(* Properties.                                                             *)
(***************************************************************************)
Fetched == response # NoResponse

IsDispatched(n) == \E d \in DOMAIN dispatched : dispatched[d] = n

Returned(n, outcome) == \E k \in DOMAIN outcomes : outcomes[k] = <<n, outcome>>

ResultsOf(n) == { k \in DOMAIN history : history[k].name = n }

\* the place of a name in the response's command list
ListPlace(n) ==
    CHOOSE i \in DOMAIN response.commands : response.commands[i].name = n

\* the execution-behaviour table
ShouldRunTable(behaviour, failureSoFar) ==
    CASE behaviour = "ON_SUCCESS" -> ~failureSoFar
      [] behaviour = "ON_FAILURE" -> failureSoFar
      [] behaviour = "ALWAYS" -> TRUE

\* the initial flag was set or an earlier step returned success=false
FailureBefore(i) ==
    response.failedAtLeastOnce \/ \E j \in 1..(i - 1) : Returned(bounded[j].name, "failure")

\* an earlier step returned the terminate sentinel
ExitBefore(i) == \E j \in 1..(i - 1) : Returned(bounded[j].name, "exit")

RunsByTable(i) ==
    /\ IsDispatched(bounded[i].name)
        <=> ShouldRunTable(bounded[i].behaviour, FailureBefore(i))
    /\ ~IsDispatched(bounded[i].name) =>
        /\ Cardinality(ResultsOf(bounded[i].name)) = 1
        /\ \A k \in ResultsOf(bounded[i].name) : history[k].status = "SKIPPED"

ResultsInListOrder ==
    \A k1, k2 \in DOMAIN history :
        k1 < k2 => ListPlace(history[k1].name) <= ListPlace(history[k2].name)

\* C1: when the server token of the response differs from the launch token,
\* no step is dispatched, no CommandResult is queued or transmitted and
\* ReportAgentFinished is never called.
C1_TokenMismatchRunsNothing ==
    (Fetched /\ response.serverToken # serverToken) =>
        /\ dispatched = <<>>
        /\ outcomes = <<>>
        /\ updates = <<>>
        /\ history = <<>>
        /\ sent = <<>>
        /\ finishedReports = <<>>

C1_Witness ==
    /\ pc = "exited"
    /\ Fetched
    /\ response.serverToken # serverToken
    /\ Len(response.commands) > 0

\* C2 as stated: when RunBuild has returned, every command of the bounded
\* range was dispatched exactly when the table says so, every command not
\* dispatched has exactly one SKIPPED result, results are in list order.
C2_Original ==
    pc = "returned" =>
        /\ \A i \in DOMAIN bounded : RunsByTable(i)
        /\ ResultsInListOrder

\* C2, amended: the same for every command of the bounded range up to and
\* including the first dispatched step that returns the terminate sentinel;
\* the commands after that step are neither dispatched nor given a result.
C2_RunsByTableUntilExit ==
    pc = "returned" =>
        /\ \A i \in DOMAIN bounded :
            IF ExitBefore(i)
            THEN ~IsDispatched(bounded[i].name) /\ ResultsOf(bounded[i].name) = {}
            ELSE RunsByTable(i)
        /\ ResultsInListOrder

C2_Witness ==
    /\ pc = "returned"
    /\ Len(bounded) = 2
    /\ Returned("a", "failure")
    /\ CommandResult("b", "SKIPPED") \in { history[k] : k \in DOMAIN history }
    /\ finishedReports # <<>>

BcNames == NamesOf(bcIn.commands)

BcPlace(n) == CHOOSE i \in DOMAIN bcIn.commands : bcIn.commands[i].name = n

IsSubRange(r, c) ==
    \E lo \in 1..(Len(c) + 1), hi \in 0..Len(c) : r = SubSeq(c, lo, hi)

\* neither the command named to nor any command after it
ExcludesToAndAfter(r) ==
    bcIn.toName \in BcNames =>
        \A i \in DOMAIN r : BcPlace(r[i].name) < BcPlace(bcIn.toName)

\* C3 as stated: with both names empty the result is the list; otherwise it
\* is a contiguous sub-range that starts with the command named from when
\* from is a member and holds neither the command named to nor a later one.
C3_Original ==
    pc = "boundedDone" =>
        IF bcIn.fromName = "" /\ bcIn.toName = ""
        THEN ~bcOut.panic /\ bcOut.commands = bcIn.commands
        ELSE /\ ~bcOut.panic
             /\ IsSubRange(bcOut.commands, bcIn.commands)
             /\ bcIn.fromName \in BcNames =>
                    /\ bcOut.commands # <<>>
                    /\ bcOut.commands[1].name = bcIn.fromName
             /\ ExcludesToAndAfter(bcOut.commands)

\* C3, amended: with both names empty the result is the list; the call
\* panics exactly when the command named to comes before the command named
\* from; otherwise the result is a contiguous sub-range that holds neither
\* the command named to nor a later one and that, when it is not empty and
\* from is a member, starts with the command named from.
C3_BoundedRange ==
    pc = "boundedDone" =>
        /\ (bcIn.fromName = "" /\ bcIn.toName = "") =>
                (~bcOut.panic /\ bcOut.commands = bcIn.commands)
        /\ bcOut.panic <=>
                /\ bcIn.fromName \in BcNames
                /\ bcIn.toName \in BcNames
                /\ BcPlace(bcIn.toName) < BcPlace(bcIn.fromName)
        /\ ~bcOut.panic =>
                /\ IsSubRange(bcOut.commands, bcIn.commands)
                /\ ExcludesToAndAfter(bcOut.commands)
                /\ (bcIn.fromName \in BcNames /\ bcOut.commands # <<>>) =>
                        bcOut.commands[1].name = bcIn.fromName

C3_Witness ==
    /\ pc = "boundedDone"
    /\ Len(bcIn.commands) = 3
    /\ bcIn.fromName = bcIn.commands[2].name
    /\ bcIn.toName = bcIn.commands[3].name
    /\ bcOut.commands = <<bcIn.commands[2]>>

SentBefore(p, n, statuses) ==
    \E q \in 1..(p - 1) : sent[q].name = n /\ sent[q].status \in statuses

\* C4: for every dispatched step, its EXECUTING result is transmitted before
\* any result of a later command, and its COMPLETED or FAILED result before
\* the EXECUTING result of any later command.
C4_UpdateOrdering ==
    \A p \in DOMAIN sent : \A d \in DOMAIN dispatched :
        ListPlace(sent[p].name) > ListPlace(dispatched[d]) =>
            /\ SentBefore(p, dispatched[d], {"EXECUTING"})
            /\ sent[p].status = "EXECUTING" =>
                    SentBefore(p, dispatched[d], {"COMPLETED", "FAILED"})

C4_Witness ==
    /\ pc = "step"
    /\ Len(dispatched) = 2
    /\ Len(sent) = 3
    /\ sent[3].status = "EXECUTING"

RegistryNames == { backgroundCommands[i] : i \in DOMAIN backgroundCommands }

\* C5 as stated: whenever RunBuild has returned, every process of the
\* background registry has exited or had Kill called on it, and every
\* background log sink was finalised exactly once.
C5_Original ==
    pc = "returned" =>
        \A n \in RegistryNames :
            /\ procs[n] = "exited" \/ n \in killCalled
            /\ finalized[n] = 1

\* C6 as stated: after a step returned the terminate sentinel no later
\* command is dispatched or given a result, and the clean-up of the registry
\* (kill and finalise of every entry) has run when RunBuild has returned.
C6_Original ==
    (pc = "returned" /\ \E n \in AllNames : Returned(n, "exit")) =>
        /\ \A i \in DOMAIN bounded :
            ExitBefore(i) =>
                ~IsDispatched(bounded[i].name) /\ ResultsOf(bounded[i].name) = {}
        /\ \A n \in RegistryNames : n \in killCalled /\ finalized[n] >= 1

PreludeSucceeded ==
    /\ Fetched
    /\ response.serverToken = serverToken
    /\ preludeFailure = "none"
    /\ toVisit = {}
    /\ "CIRRUS_HTTP_CACHE_HOST" \in DOMAIN env

\* C7 as stated: every run whose fetch, token check and prelude succeeded has
\* called ReportAgentFinished at least once when RunBuild has returned.
C7_Original ==
    (pc = "returned" /\ PreludeSucceeded) => Len(finishedReports) >= 1

\* the commands from the one named from up to, not including, the one named to
RangeOf(commands, fromName, toName) ==
    LET place(n) == CHOOSE i \in DOMAIN commands : commands[i].name = n
        lo == IF fromName \in NamesOf(commands) THEN place(fromName) ELSE 1
        hi == IF toName \in NamesOf(commands) THEN place(toName) - 1
              ELSE Len(commands)
    IN  SubSeq(commands, lo, hi)

\* per command, in order: one SKIPPED, or EXECUTING and then COMPLETED or FAILED
RECURSIVE HistoryShape(_, _)
HistoryShape(h, commands) ==
    IF commands = <<>> THEN h = <<>>
    ELSE \/ /\ Len(h) >= 1
            /\ h[1] = CommandResult(commands[1].name, "SKIPPED")
            /\ HistoryShape(Tail(h), Tail(commands))
         \/ /\ Len(h) >= 2
            /\ h[1] = CommandResult(commands[1].name, "EXECUTING")
            /\ h[2].name = commands[1].name
            /\ h[2].status \in {"COMPLETED", "FAILED"}
            /\ HistoryShape(Tail(Tail(h)), Tail(commands))

\* C8: the history of every ReportAgentFinished call is everything queued in
\* the run: for each command of the range [commandFrom, commandTo), in list
\* order, one SKIPPED entry or an EXECUTING entry and right after it one
\* COMPLETED or FAILED entry, and nothing for a command outside the range.
C8_FinishedHistory ==
    \A k \in DOMAIN finishedReports :
        /\ finishedReports[k].history = history
        /\ HistoryShape(finishedReports[k].history,
                        RangeOf(response.commands, commandFrom, commandTo))

C8_Witness ==
    /\ finishedReports # <<>>
    /\ Len(response.commands) = 2
    /\ commandFrom = "b"
    /\ finishedReports[1].history =
            <<CommandResult("b", "EXECUTING"), CommandResult("b", "COMPLETED")>>

\* C9: when a value fails to parse as a boxed value, the Vault client cannot
\* be created or unboxing fails, ReportAgentError is sent and RunBuild has
\* returned with no step dispatched, no CommandResult queued and no
\* ReportAgentFinished sent.
C9_PreludeFailureReported ==
    preludeFailure # "none" =>
        /\ agentErrors >= 1
        /\ pc = "returned"
        /\ dispatched = <<>>
        /\ updates = <<>>
        /\ history = <<>>
        /\ sent = <<>>
        /\ finishedReports = <<>>

C9_Witness ==
    /\ preludeFailure = "unbox"
    /\ vaultUnboxer = "client"
    /\ sensitive # {}

BoxedKeys ==
    { k \in DOMAIN response.environment : response.environment[k] \in BoxedValues }

\* C10: when the first step is dispatched every variable whose value was a
\* boxed reference holds the unboxed value, and from then on the sensitive
\* values include every unboxed value and every entry of secretsToMask.
C10_UnboxedBeforeFirstStep ==
    /\ (pc = "step" /\ Len(dispatched) = 1) =>
            \A k \in BoxedKeys : env[k] = VaultSecret(response.environment[k])
    /\ dispatched # <<>> =>
            /\ \A k \in BoxedKeys : VaultSecret(response.environment[k]) \in sensitive
            /\ response.secretsToMask \subseteq sensitive

C10_Witness ==
    /\ pc = "step"
    /\ Len(dispatched) = 1
    /\ Cardinality(BoxedKeys) = 2
    /\ response.secretsToMask # {}

NothingRun ==
    /\ dispatched = <<>>
    /\ outcomes = <<>>
    /\ updates = <<>>
    /\ history = <<>>
    /\ sent = <<>>
    /\ finishedReports = <<>>

\* C12: the first InitialCommands request carries retry=false and every
\* later one retry=true; while no attempt has succeeded RunBuild stays in
\* the fetch unless the parent context is cancelled, and when it has
\* returned on cancellation no step was dispatched, no CommandResult queued
\* and no ReportAgentFinished sent.
C12_FetchRetries ==
    /\ \A i \in DOMAIN retryFlags : retryFlags[i] = (i # 1)
    /\ ~Fetched =>
            /\ pc \in {"fetch", "returned"}
            /\ pc = "returned" <=> ctxCancelled
            /\ NothingRun

C12_Witness ==
    /\ pc = "returned"
    /\ ~Fetched
    /\ ctxCancelled
    /\ retryFlags = <<FALSE, TRUE, TRUE>>

\* the final flush is done: nothing is buffered and the last result queued is
\* the last one transmitted
FinalFlushDone ==
    /\ updates = <<>>
    /\ history # <<>> => (sent # <<>> /\ sent[Len(sent)] = history[Len(history)])

\* C19: on every run that reaches teardown the final flush is done before
\* the first Kill, the flush and the Kill and Finalize of every entry of the
\* registry are done before the first ReportAgentFinished call, and no step
\* is dispatched after the first Kill.
C19_TeardownOrder ==
    /\ [](killCalled # {} => FinalFlushDone)
    /\ [](finishedReports # <<>> =>
            /\ FinalFlushDone
            /\ \A n \in RegistryNames : n \in killCalled /\ finalized[n] >= 1)
    /\ [][killCalled # {} => dispatched' = dispatched]_vars

C19_Witness ==
    /\ finishedReports # <<>>
    /\ Len(backgroundCommands) = 2
    /\ killCalled = RegistryNames
    /\ \E n \in RegistryNames : procs[n] = "killed"

\* C20: in teardown ReportAgentFinished is called at least once (every step
\* that leaves the report phase or stays in it makes a call, and the drain
\* is left only for the report phase) and at most twice; the second call is
\* made only after the first returned an error and with the parent context
\* not cancelled; after two failed calls RunBuild has returned and no
\* ReportAgentError was sent.
C20_FinishedAttempts ==
    /\ [](Len(finishedReports) <= 2 /\ Len(reportResults) = Len(finishedReports))
    /\ [][pc = "drain" => pc' \in {"drain", "report"}]_vars
    /\ [][pc = "report" => Len(finishedReports') = Len(finishedReports) + 1]_vars
    /\ [][Len(finishedReports') = 2 =>
            (reportResults'[1] = "error" /\ ~ctxCancelled /\ ~ctxCancelled')]_vars
    /\ [](reportResults = <<"error", "error">> =>
            (pc = "returned" /\ agentErrors = 0))

C20_Witness ==
    /\ pc = "returned"
    /\ reportResults = <<"error", "error">>
    /\ Len(finishedReports) = 2

\* the text of the endpoint after a scheme at its start
AfterScheme(scheme) == SubSeq(apiEndpoint, Len(scheme) + 1, Len(apiEndpoint))

\* C17 as stated: https://X gives secure with target X, http://X gives
\* insecure with target X, unix://P gives insecure with the endpoint as
\* target, an endpoint without "://" gives secure with the endpoint as
\* target.
C17_Original ==
    pc = "transportDone" =>
        /\ HasPrefix(apiEndpoint, SchemeHttps) =>
                (~transport.insecure /\ transport.target = AfterScheme(SchemeHttps))
        /\ HasPrefix(apiEndpoint, SchemeHttp) =>
                (transport.insecure /\ transport.target = AfterScheme(SchemeHttp))
        /\ HasPrefix(apiEndpoint, SchemeUnix) =>
                (transport.insecure /\ transport.target = apiEndpoint)
        /\ ~Contains(apiEndpoint, SchemeSeparator) =>
                (~transport.insecure /\ transport.target = apiEndpoint)

\* the same table for the endpoints in which "https://" stands nowhere but
\* at the start
TransportTableOfPlainEndpoints ==
    (pc = "transportDone"
        /\ ~Contains(Tail(apiEndpoint \o <<"h">>), SchemeHttps)) =>
        /\ HasPrefix(apiEndpoint, SchemeHttps) =>
                (~transport.insecure /\ transport.target = AfterScheme(SchemeHttps))
        /\ HasPrefix(apiEndpoint, SchemeHttp) =>
                (transport.insecure /\ transport.target = AfterScheme(SchemeHttp))
        /\ HasPrefix(apiEndpoint, SchemeUnix) =>
                (transport.insecure /\ transport.target = apiEndpoint)
        /\ ~Contains(apiEndpoint, SchemeSeparator) =>
                (~transport.insecure /\ transport.target = apiEndpoint)

\* C11 as stated: after the epilogue, when CIRRUS_ENV_SENSITIVE is in the
\* environment, be it from before the step or from the step's own CIRRUS_ENV
\* file, every value read from that file is a sensitive value.
C11_Original ==
    (pc = "scriptDone" /\ "CIRRUS_ENV_SENSITIVE" \in DOMAIN env) =>
        ValuesOf(consumed) \subseteq sensitive

\* C13: a Script step whose wait returned the timeout error has
\* success=false and signaledToExit=false, and signaledToExit is true only
\* when the wait returned no error and the wait status reports termination
\* by a signal.
C13_ScriptTimeout ==
    pc \in {"epilogue", "scriptDone"} =>
        /\ scriptWait.err = "TimeOutError" =>
                (~scriptOut.success /\ ~scriptOut.signaledToExit)
        /\ scriptOut.signaledToExit =>
                /\ scriptWait.err = "nil"
                /\ scriptWait.waitStatus
                /\ scriptWait.exit = "signaled"

C13_Witness ==
    /\ pc = "scriptDone"
    /\ scriptWait.err = "TimeOutError"
    /\ scriptWait.exit = "signaled"
    /\ scriptWait.waitStatus
    /\ scriptOut = [success |-> FALSE, signaledToExit |-> FALSE]

\* C14 as stated: every signal delivered to the running process is
\* forwarded as one ReportAgentSignal call: at any moment the delivered
\* signals are the reported ones and the one the receiver is about to
\* report.
C14_Original ==
    signalsDelivered = signalReports + (IF receiver = "received" THEN 1 ELSE 0)

\* the code after the dial loop has run
PastDial ==
    \/ pc \in {"dialed", "stopHook", "notify", "heartbeat", "run", "upload"}
    \/ stopHookCalls # <<>>
    \/ receiver # "none"
    \/ heartbeats # "none"
    \/ executorRuns # 0

\* C16: the dial loop is left only with an established connection: client
\* init, stop hook, signal receiver, heartbeat and executor never run with a
\* nil connection, however many dials failed before.
C16_DialedConnection == PastDial => conn = "established"

C16_Witness ==
    /\ dialFailures = 2
    /\ conn = "established"
    /\ heartbeats = "running"
    /\ executorRuns = 1

\* C18: with --stop-hook (and without --help) there is at most one
\* ReportStopHook call, and exactly one when the process has exited; the
\* signal receiver, the heartbeat and the executor are never started and
\* InitialCommands is never called; the log file is removed only when the
\* call succeeded.
C18_StopHook ==
    (flags.stopHook /\ ~flags.help) =>
        /\ Len(stopHookCalls) <= 1
        /\ pc = "mainExited" => Len(stopHookCalls) = 1
        /\ receiver = "none"
        /\ heartbeats = "none"
        /\ executorRuns = 0
        /\ retryFlags = <<>>
        /\ logFileRemoved <=> stopHookCalls = <<"ok">>

C18_Witness ==
    /\ flags.stopHook
    /\ pc = "mainExited"
    /\ stopHookCalls = <<"error">>
    /\ ~logFileRemoved
    /\ dialFailures = 1

\* C15: when the clean-up loop of the background registry has run twice, no
\* log uploader of a registry entry has been finalised more than once.
C15_Original ==
    pc \in {"drainSecond", "drainedTwice"} =>
        \A i \in DOMAIN backgroundCommands :
            finalized[backgroundCommands[i]] <= 1

\* C28: for every command list with unique names and every pair of names
\* from/to, BoundedCommands does not fail: the lower index it computes does
\* not exceed the upper one and the result is a contiguous sub-list.
C28_Original ==
    pc = "boundedDone" =>
        /\ ~bcOut.panic
        /\ bcOut.left <= bcOut.right
        /\ IsSubRange(bcOut.commands, bcIn.commands)

\* C27: the select on the metrics channel ends in one of two ways. When the
\* 3-second wait passes first, one ReportAgentWarning is sent and no resource
\* utilisation is kept; when the result arrives, one warning is sent per
\* error of the result and its utilisation is kept. Either way every step of
\* the report phase calls ReportAgentFinished, with the utilisation kept (none
\* after the wait passed) and without a further warning.
C27_MetricsDegraded ==
    /\ [][(pc = "drain" /\ pc' = "report") =>
            /\ metricsResult = NoMetrics
            /\ metricsResult'.timedOut # metricsResult'.arrived
            /\ metricsResult'.timedOut =>
                    /\ agentWarnings' = agentWarnings + 1
                    /\ resourceUtilization' = "nil"
            /\ metricsResult'.arrived =>
                    /\ agentWarnings' = agentWarnings + metricsResult'.errors
                    /\ resourceUtilization' = "measured"]_vars
    /\ [][pc = "report" =>
            /\ Len(finishedReports') = Len(finishedReports) + 1
            /\ finishedReports'[Len(finishedReports')].utilization =
                    (IF metricsResult.timedOut THEN "nil" ELSE "measured")
            /\ agentWarnings' = agentWarnings]_vars

C27_Witness ==
    /\ pc = "returned"
    /\ metricsResult.timedOut
    /\ agentWarnings = 1
    /\ Len(finishedReports) = 1
    /\ finishedReports[1].utilization = "nil"

\* C25: NewFromEnvironment is called at most once in a run, and only by the
\* visit of a variable whose value parses as a boxed value; a response with
\* no boxed value leaves the run without a Vault client, a login, an unboxed
\* value or a Vault failure, CIRRUS_VAULT_URL set or not; a login is attempted
\* only within that one call and only with CIRRUS_OIDC_TOKEN in the
\* environment.
C25_LazyVaultClient ==
    /\ [](vaultClients <= 1 /\ loginAttempts <= vaultClients)
    /\ [][vaultClients' # vaultClients =>
            /\ pc = "unbox"
            /\ vaultUnboxer = "nil"
            /\ \E k \in toVisit : NewBoxedValue(env[k]) = "boxed"]_vars
    /\ [][loginAttempts' # loginAttempts =>
            /\ vaultClients' = vaultClients + 1
            /\ "CIRRUS_OIDC_TOKEN" \in DOMAIN env]_vars
    /\ []((Fetched /\ BoxedKeys = {}) =>
            /\ vaultClients = 0
            /\ loginAttempts = 0
            /\ vaultUnboxer = "nil"
            /\ preludeFailure \in {"none", "parse"}
            /\ \A k \in DOMAIN env : env[k] \notin {"secret1", "secret2"})

C25_Witness ==
    /\ pc = "loop"
    /\ Cardinality(BoxedKeys) = 2
    /\ vaultClients = 1
    /\ loginAttempts = 0
    /\ vaultUnboxer = "client"
    /\ \A k \in BoxedKeys : env[k] = VaultSecret(response.environment[k])

\* C23: when RunBuild has returned, every log uploader that performStep
\* created has been finalised exactly once.
C23_Original ==
    pc = "returned" => \A n \in logUploaders : finalized[n] = 1

\* C22: the background registry changes only when performStep launches a
\* BackgroundScript step: the step's name is appended at the end, the step
\* returns success=true and its process is left running. A BackgroundScript
\* step whose launch fails leaves the registry as it is, finalises its log
\* uploader in that step and returns success=false. Every other step of the
\* run leaves the registry as it is.
C22_RegistryFrame ==
    /\ [][backgroundCommands' # backgroundCommands =>
            /\ pc = "step"
            /\ bounded[idx].instruction = "BackgroundScript"
            /\ stepReturn' = "launched"
            /\ backgroundCommands' = Append(backgroundCommands, bounded[idx].name)]_vars
    /\ [][(pc = "step" /\ stepReturn' = "launched") =>
            /\ backgroundCommands' = Append(backgroundCommands, bounded[idx].name)
            /\ stepResult' = [success |-> TRUE, exit |-> FALSE]
            /\ pc' = "stepReturned"
            /\ procs'[bounded[idx].name] = "running"
            /\ finalized' = finalized]_vars
    /\ [][(pc = "step" /\ stepReturn' = "launchFailed") =>
            /\ bounded[idx].instruction = "BackgroundScript"
            /\ backgroundCommands' = backgroundCommands
            /\ finalized' = Finalize(bounded[idx].name)
            /\ stepResult' = [success |-> FALSE, exit |-> FALSE]
            /\ pc' = "stepReturned"]_vars

C22_Witness ==
    /\ pc = "stepReturned"
    /\ stepReturn = "launchFailed"
    /\ bounded[idx].name = "b"
    /\ backgroundCommands = <<"a">>
    /\ procs["a"] = "running"
    /\ finalized["b"] = 1
    /\ finalized["a"] = 0

InTerminalWait ==
    /\ pc = "step"
    /\ bounded[idx].instruction = "WaitForTerminal"

\* C24: from the head of the loop on, the terminal wrapper exists exactly
\* when some command of the response, inside the bounded range or not, is a
\* WaitForTerminal instruction; so it exists whenever a WaitForTerminal step
\* is dispatched. While such a step waits, a Log operation leaves the step
\* waiting with no result, and the first Exit operation ends the step with
\* its success flag.
C24_TerminalWrapper ==
    /\ [](pc \in {"loop", "step", "stepReturned"} =>
            terminalWrapper = hasWaitForTerminalInstruction(response.commands))
    /\ [](InTerminalWait => terminalWrapper)
    /\ [][(InTerminalWait /\ terminalOps' # terminalOps) =>
            /\ \A i \in DOMAIN terminalOps : terminalOps[i] = "log"
            /\ \E op \in {"log", "exitSuccess", "exitFailure"} :
                /\ terminalOps' = Append(terminalOps, op)
                /\ op = "log" =>
                    (pc' = "step" /\ outcomes' = outcomes /\ stepResult' = stepResult)
                /\ op # "log" =>
                    /\ pc' = "stepReturned"
                    /\ stepResult' = [success |-> op = "exitSuccess", exit |-> FALSE]]_vars
    /\ [][(InTerminalWait /\ pc' = "stepReturned" /\ terminalOps' = terminalOps) =>
            (terminalOps = <<>> /\ ~stepResult'.success)]_vars

C24_Witness ==
    /\ pc = "stepReturned"
    /\ bounded[idx].instruction = "WaitForTerminal"
    /\ terminalOps = <<"log", "exitSuccess">>
    /\ stepResult.success
    /\ Len(response.commands) > Len(bounded)

\* a result that ends a command: SKIPPED, COMPLETED or FAILED
HasFinalResult(n) ==
    \E k \in DOMAIN history :
        /\ history[k].name = n
        /\ history[k].status \in {"SKIPPED", "COMPLETED", "FAILED"}

\* C21: when RunBuild has returned from the loop with the deadline of the
\* steps passed and the parent context live, every command of the bounded
\* range has its result, the final flush is done, every entry of the
\* registry was killed and finalised, and ReportAgentFinished was called.
C21_Original ==
    (pc = "returned" /\ stepDeadline = "expired" /\ ~ctxCancelled) =>
        /\ \A i \in DOMAIN bounded : HasFinalResult(bounded[i].name)
        /\ FinalFlushDone
        /\ \A n \in RegistryNames : n \in killCalled /\ finalized[n] >= 1
        /\ finishedReports # <<>>

\* a retryable error as the claim has it: the lower-cased message contains
\* timeout, tls, connection, authentication or not found
RetryableAsStated(err) ==
    /\ err # <<>>
    /\ \E mark \in {<<"timeout">>, <<"tls">>, <<"connection">>,
                    <<"authentication">>, <<"not", " found">>} :
            Contains(ToLower(err), mark)

IsCloneRetry(a) == a.op \in {"fetchRetry", "cloneRetry"}

\* C26: in the Clone step a further attempt is made only as the one retry
\* of a retryable error, or as the fall-back from the head ref to the merge
\* ref right after the first fetch; the retry of a clone comes with the
\* working directory removed and recreated. Branch and tag mode make at most
\* two clones; PR mode makes at most one retry after the optional fall-back.
\* The attempts end only when the error in hand is not retryable or the retry
\* was made, and an error in hand then returns success=false.
C26_CloneRetries ==
    /\ [][cloneAttempts' # cloneAttempts =>
            LET a == cloneAttempts'[Len(cloneAttempts')]
            IN  /\ cloneAttempts' = Append(cloneAttempts, a)
                /\ a.op \in {"fetchHead", "clone"} =>
                        /\ cloneAttempts = <<>>
                        /\ (a.op = "fetchHead") <=> ("CIRRUS_PR" \in DOMAIN env)
                /\ a.op = "fetchMerge" =>
                        /\ Len(cloneAttempts) = 1
                        /\ Contains(cloneErr, <<"couldn't find remote ref">>)
                /\ IsCloneRetry(a) =>
                        /\ RetryableAsStated(cloneErr)
                        /\ cloneAttempts # <<>>
                        /\ \A i \in DOMAIN cloneAttempts :
                                ~IsCloneRetry(cloneAttempts[i])
                /\ a.wiped <=> (a.op = "cloneRetry")]_vars
    /\ [](IF "CIRRUS_PR" \in DOMAIN env
          THEN /\ Len(cloneAttempts) <= 3
               /\ \A i \in DOMAIN cloneAttempts :
                    cloneAttempts[i].op \in {"fetchHead", "fetchMerge", "fetchRetry"}
          ELSE /\ Len(cloneAttempts) <= 2
               /\ \A i \in DOMAIN cloneAttempts :
                    cloneAttempts[i].op \in {"clone", "cloneRetry"})
    /\ [][(pc \in {"headFetched", "fetched", "plainCloned", "retried"}
           /\ pc' \in {"cloned", "cloneDone"}) =>
            /\ RetryableAsStated(cloneErr) =>
                    IsCloneRetry(cloneAttempts[Len(cloneAttempts)])
            /\ cloneErr # <<>> => (cloneResult' = "false" /\ pc' = "cloneDone")
            /\ cloneErr = <<>> => pc' = "cloned"]_vars

C26_Witness ==
    /\ pc = "cloneDone"
    /\ "CIRRUS_PR" \in DOMAIN env
    /\ Len(cloneAttempts) = 3
    /\ cloneAttempts[3].op = "fetchRetry"
    /\ cloneErr = <<"Timeout">>
    /\ cloneResult = "false"

====
